---- MODULE Spec2Model ----
(***************************************************************************)
(* AWA - freelance daily-rate (TJM) aggregation.                           *)
(*                                                                         *)
(* Specifications over one set of variables; each holds the parts it does  *)
(* not use at rest:                                                        *)
(*   SpecNorm, SpecTwice   the helper normalizeTechnology                  *)
(*   Spec, SpecApi         table offers, its writers and GET /api/offers   *)
(*   SpecEtl               one run of the ETL batch                        *)
(*   SpecPage, SpecDisplay, SpecRender   the search page and its results   *)
(*   SpecLoc, SpecSummary, SpecStats     the location statistics           *)
(*   SpecFormat, SpecTech  formatTjm and GET /api/technologies             *)
(*   SpecSearch, SpecOverlap   useSearch with its two requests             *)
(*   SpecPop               scripts/populate_db.ps1                         *)
(*                                                                         *)
(* A string is a sequence of one-character strings.                        *)
(***************************************************************************)
EXTENDS Integers, Sequences, FiniteSets, Bags, TLC

VARIABLES
    techIn,     \* normalizeTechnology: the argument `tech`
    techOut,    \* normalizeTechnology: the value returned, NoValue before the call
    offers,     \* the rows of table offers
    written,    \* history: (source, source_id) -> the row last upserted for it
    request,    \* the last HTTP request handled
    response,   \* the body of its response
    batch,      \* ETL: the raw records of the run
    pos,        \* ETL: index of the next raw record
    outcome,    \* ETL: what became of each raw record handled so far
    etlStatus,  \* ETL: "idle", "transform", "load", "done" or "aborted"
    dbReachable, \* whether the database answers
    form,       \* SearchBar: formData
    search,     \* useSearch: state
    pending,    \* bag of the searches of handleSearch that have not returned
    selectedOffer, \* SearchResults: selectedOffer, <<>> for null
    document,   \* document: body.style.overflow and the keydown listener
    modalEvent, \* history: the event of the modal handled by the last step
    stats, \* useLocationStats: state
    fetch, \* useLocationStats: renders, effects run, requests sent and in flight, what the route serves, the answer
    dataDir,    \* populate_db: the files of the scraper data directory
    pipeline,   \* populate_db: the step reached, the counts, the steps run so far
    input,      \* a function called on its own: its arguments
    output      \* and what it returned, NoValue before the call

vars == <<techIn, techOut, offers, written, request, response,
          batch, pos, outcome, etlStatus, dbReachable,
          form, search, pending, selectedOffer, document, modalEvent,
          stats, fetch,
          dataDir, pipeline,
          input, output>>

normVars == <<techIn, techOut>>
dbVars   == <<offers, written, request, response>>
etlVars  == <<batch, pos, outcome, etlStatus, dbReachable>>
pageVars == <<form, search, pending, selectedOffer, document, modalEvent>>
callVars == <<input, output>>
statsVars == <<stats, fetch>>
popVars == <<dataDir, pipeline>>

NoValue == <<"<none>">>

\* before any request
NoRequest  == [handler |-> "none"]
NoResponse == [status |-> 0]

(***************************************************************************)
(* Rest states of the parts a specification does not use                   *)
(***************************************************************************)
NormIdle == techIn = NoValue /\ techOut = NoValue
DbIdle   == offers = {} /\ written = {} /\ request = NoRequest /\ response = NoResponse
EtlIdle  ==
    /\ batch = <<>> /\ pos = 1 /\ outcome = <<>> /\ etlStatus = "idle"
    /\ dbReachable = TRUE

\* useState of SearchBar and of useSearch: <<>> stands for null
EmptyForm == [technologies |-> <<>>, location |-> <<>>]
NoSearch  == [searchParams |-> <<>>, loading |-> FALSE, error |-> <<>>, results |-> <<>>]

\* document.body before any modal was shown
\* the last step was no event of the modal
NoModalEvent == [kind |-> "none", card |-> 0]

PlainBody == [overflow |-> "", keydown |-> FALSE]

PageIdle ==
    /\ form = EmptyForm /\ search = NoSearch /\ pending = EmptyBag
    /\ selectedOffer = <<>> /\ document = PlainBody
    /\ modalEvent = NoModalEvent
\* useLocationStats before HomePage is mounted
NotMounted ==
    [renders |-> 0, effects |-> 0, requests |-> 0, inFlight |-> 0,
     served |-> {}, answer |-> <<>>]

StatsIdle ==
    /\ stats = [locations |-> <<>>, loading |-> TRUE, error |-> <<>>]
    /\ fetch = NotMounted

\* populate_db.ps1 before it is started
NotStarted ==
    [step |-> "none", freeworkCount |-> <<>>, collectiveCount |-> <<>>,
     kept |-> {}, log |-> <<>>, message |-> ""]

PopIdle == dataDir = {} /\ pipeline = NotStarted

CallIdle == input = NoValue /\ output = NoValue

(***************************************************************************)
(* Characters and String.prototype.toLowerCase                             *)
(***************************************************************************)
LowerCs == <<"a","b","c","d","e","f","g","h","i","j","k","l","m",
             "n","o","p","q","r","s","t","u","v","w","x","y","z">>
UpperCs == <<"A","B","C","D","E","F","G","H","I","J","K","L","M",
             "N","O","P","Q","R","S","T","U","V","W","X","Y","Z">>

ToLowerChar(c) ==
    IF \E i \in 1..Len(UpperCs) : UpperCs[i] = c
    THEN LowerCs[CHOOSE i \in 1..Len(UpperCs) : UpperCs[i] = c]
    ELSE c

ToUpperChar(c) ==
    IF \E i \in 1..Len(LowerCs) : LowerCs[i] = c
    THEN UpperCs[CHOOSE i \in 1..Len(LowerCs) : LowerCs[i] = c]
    ELSE c

toLowerCase(s) == [i \in 1..Len(s) |-> ToLowerChar(s[i])]

(***************************************************************************)
(* normalizeTechnology                                                     *)
(***************************************************************************)
Undefined == <<"<undefined>">>

\* A value that is no string: a member inherited from Object.prototype.
InheritedMember == <<"<Object.prototype member>">>

techMap ==
    { [key |-> <<"j","a","v","a","s","c","r","i","p","t">>, value |-> <<"J","a","v","a","s","c","r","i","p","t">>],
      [key |-> <<"j","s">>, value |-> <<"J","a","v","a","s","c","r","i","p","t">>],
      [key |-> <<"r","e","a","c","t">>, value |-> <<"R","e","a","c","t">>],
      [key |-> <<"r","e","a","c","t","j","s">>, value |-> <<"R","e","a","c","t">>],
      [key |-> <<"v","u","e">>, value |-> <<"V","u","e",".","j","s">>],
      [key |-> <<"v","u","e","j","s">>, value |-> <<"V","u","e",".","j","s">>],
      [key |-> <<"a","n","g","u","l","a","r">>, value |-> <<"A","n","g","u","l","a","r">>],
      [key |-> <<"n","o","d","e","j","s">>, value |-> <<"N","o","d","e",".","j","s">>],
      [key |-> <<"n","o","d","e">>, value |-> <<"N","o","d","e",".","j","s">>],
      [key |-> <<"t","y","p","e","s","c","r","i","p","t">>, value |-> <<"T","y","p","e","s","c","r","i","p","t">>],
      [key |-> <<"t","s">>, value |-> <<"T","y","p","e","s","c","r","i","p","t">>] }

techMapKeys == {e.key : e \in techMap}

\* techMap is an object literal, so its prototype is Object.prototype and a
\* property read that finds no own property continues there.
ObjectPrototypeProps ==
    { <<"c","o","n","s","t","r","u","c","t","o","r">>,
      <<"_","_","p","r","o","t","o","_","_">>,
      <<"t","o","S","t","r","i","n","g">>,
      <<"v","a","l","u","e","O","f">>,
      <<"h","a","s","O","w","n","P","r","o","p","e","r","t","y">>,
      <<"i","s","P","r","o","t","o","t","y","p","e","O","f">>,
      <<"p","r","o","p","e","r","t","y","I","s","E","n","u","m","e","r","a","b","l","e">>,
      <<"t","o","L","o","c","a","l","e","S","t","r","i","n","g">>,
      <<"_","_","d","e","f","i","n","e","G","e","t","t","e","r","_","_">>,
      <<"_","_","d","e","f","i","n","e","S","e","t","t","e","r","_","_">>,
      <<"_","_","l","o","o","k","u","p","G","e","t","t","e","r","_","_">>,
      <<"_","_","l","o","o","k","u","p","S","e","t","t","e","r","_","_">> }

\* techMap[k]
techMapGet(k) ==
    IF k \in techMapKeys
    THEN (CHOOSE e \in techMap : e.key = k).value
    ELSE IF k \in ObjectPrototypeProps THEN InheritedMember ELSE Undefined

\* the operand test of `a || b`
Truthy(v) == v # Undefined /\ v # <<>>

\* the bug of looking the argument up as given, without lower-casing it
normalizeTechnology_CaseSensitive(tech) ==
    LET v == techMapGet(tech) IN IF Truthy(v) THEN v ELSE tech

normalizeTechnology(tech) ==
    LET v == techMapGet(toLowerCase(tech)) IN IF Truthy(v) THEN v ELSE tech

(***************************************************************************)
(* Inputs of normalizeTechnology: every casing of the short keys, three    *)
(* casings of the long ones, and strings that are no key.                  *)
(***************************************************************************)
MaxCaseLen == 6

RECURSIVE CaseVariants(_)
CaseVariants(w) ==
    IF w = <<>> THEN {<<>>}
    ELSE {<<c>> \o r : c \in {Head(w), ToUpperChar(Head(w))},
                       r \in CaseVariants(Tail(w))}

ThreeCasings(w) ==
    { w,
      [i \in 1..Len(w) |-> ToUpperChar(w[i])],
      [i \in 1..Len(w) |-> IF i = 1 THEN ToUpperChar(w[i]) ELSE w[i]] }

OtherTechInputs ==
    { <<"P","y","t","h","o","n">>,
      <<"J","a","v","a">>,
      <<"G","o">>,
      <<>>,
      <<"C","#">>,
      <<"V","u","e",".","j","s">>,
      <<"N","o","d","e",".","j","s">>,
      <<"c","o","n","s","t","r","u","c","t","o","r">>,
      <<"C","o","n","s","t","r","u","c","t","o","r">>,
      <<"_","_","p","r","o","t","o","_","_">>,
      <<"t","o","S","t","r","i","n","g">>,
      <<"v","a","l","u","e","O","f">>,
      <<"r","e","a","c","t","n","a","t","i","v","e">>,
      <<" ","r","e","a","c","t">>,
      <<"j"," ","s">> }

TechInputs ==
    UNION { IF Len(k) <= MaxCaseLen THEN CaseVariants(k) ELSE ThreeCasings(k)
            : k \in techMapKeys }
    \cup OtherTechInputs

(***************************************************************************)
(* Table offers                                                            *)
(*   row: [source, source_id, title, technologies, location, scraped_at]   *)
(* technologies is NullArray or a sequence of strings, location NULL or a  *)
(* string, scraped_at a time stamp counted in ticks.                       *)
(***************************************************************************)
NULL == <<"<null>">>

\* the NULL of an array column
NullArray == <<NULL>>

\* UNIQUE(source, source_id): the columns of a row that the constraint reads
\* the bug of a constraint on source_id alone
OfferKey_SourceIdOnly(r) == <<r.source_id>>

OfferKey(r) == <<r.source, r.source_id>>

\* the constraint itself, on a set of rows
UniqueSourceAndId(rows) ==
    \A r1 \in rows, r2 \in rows : OfferKey(r1) = OfferKey(r2) => r1 = r2

\* Loader: upsert with the unique constraint as conflict target; a row with
\* the key of the new one is replaced by it.
Upsert(rows, new) ==
    {r \in rows : OfferKey(r) # OfferKey(new)} \cup {new}

\* the bug of a table without the constraint
InsertConflicts_Never(rows, new) == FALSE

\* insert(body): a row whose key is taken violates the constraint
InsertConflicts(rows, new) == \E r \in rows : OfferKey(r) = OfferKey(new)

\* history of the writes that succeeded: the last one for each
\* (source, source_id), read from the row itself
RecordWrite(hist, new) ==
    {w \in hist : ~(w.source = new.source /\ w.source_id = new.source_id)}
    \cup {new}

(***************************************************************************)
(* Spec: the writers of table offers                                       *)
(***************************************************************************)
MaxRows == 2
MaxTime == 2

Sources   == {"freework", "collective_work"}
SourceIds == {"1", "2"}
Titles    == {"Dev React", "Dev React Senior"}

WriterRows ==
    [source : Sources, source_id : SourceIds, title : Titles,
     technologies : {<< <<"R","e","a","c","t">> >>},
     location : {<<"P","a","r","i","s">>},
     scraped_at : 1..MaxTime]

HasRoom(rows, new) ==
    InsertConflicts(rows, new) \/ Cardinality(rows) < MaxRows

Init ==
    /\ offers = {}
    /\ written = {}
    /\ request = NoRequest
    /\ response = NoResponse
    /\ NormIdle
    /\ EtlIdle
    /\ PageIdle
    /\ PopIdle
    /\ StatsIdle
    /\ CallIdle

\* SupabaseLoader: one offer of a batch is upserted
LoadOffer(row) ==
    /\ HasRoom(offers, row)
    /\ offers' = Upsert(offers, row)
    /\ written' = RecordWrite(written, row)
    /\ request' = [handler |-> "load", key |-> <<row.source, row.source_id>>,
                   replaced |-> {r \in offers : OfferKey(r) = OfferKey(row)}]
    /\ response' = [status |-> 200]
    /\ UNCHANGED <<normVars, etlVars, pageVars, callVars, statsVars, popVars>>

\* POST /api/offers
PostOffer(body) ==
    /\ HasRoom(offers, body)
    /\ request' = [handler |-> "POST", key |-> <<body.source, body.source_id>>]
    /\ IF InsertConflicts(offers, body)
       THEN /\ response' = [status |-> 400]
            /\ UNCHANGED <<offers, written>>
       ELSE /\ offers' = offers \cup {body}
            /\ written' = RecordWrite(written, body)
            /\ response' = [status |-> 201]
    /\ UNCHANGED <<normVars, etlVars, pageVars, callVars, statsVars, popVars>>

Next ==
    \/ \E row \in WriterRows : LoadOffer(row)
    \/ \E body \in WriterRows : PostOffer(body)

Spec == Init /\ [][Next]_vars

\* C1: after any sequence of loads the table holds exactly one row for each
\* (source, source_id) written, and that row is the most recent write for
\* the key: no two rows share a key, every last write is stored, and
\* nothing else is.
C1_LastWriteWins ==
    /\ \A r1 \in offers, r2 \in offers :
          (r1.source = r2.source /\ r1.source_id = r2.source_id) => r1 = r2
    /\ \A w \in written : w \in offers
    /\ \A r \in offers : r \in written

\* a key was loaded a second time with other values: the row of the first
\* load is gone and the row of the second is the only one of its key
C1_Witness ==
    /\ request.handler = "load"
    /\ \E old \in request.replaced :
          /\ old.title = "Dev React"
          /\ old.scraped_at = 1
          /\ old \notin offers
    /\ \E r \in offers :
          /\ <<r.source, r.source_id>> = request.key
          /\ r.title = "Dev React Senior"
          /\ r.scraped_at = 2
    /\ Cardinality(offers) = 2

(***************************************************************************)
(* String helpers of the query layer                                       *)
(***************************************************************************)
IsSpace(c) == c = " "

\* String.prototype.trim
RECURSIVE TrimStart(_)
TrimStart(s) ==
    IF s # <<>> /\ IsSpace(Head(s)) THEN TrimStart(Tail(s)) ELSE s

RECURSIVE TrimEnd(_)
TrimEnd(s) ==
    IF s # <<>> /\ IsSpace(s[Len(s)]) THEN TrimEnd(SubSeq(s, 1, Len(s) - 1)) ELSE s

Trim(s) == TrimEnd(TrimStart(s))

\* text ILIKE pattern: % matches any run of characters, _ any one character,
\* every other character itself whatever its case
RECURSIVE LikeMatch(_, _)
LikeMatch(t, p) ==
    IF p = <<>> THEN t = <<>>
    ELSE IF Head(p) = "%"
         THEN LikeMatch(t, Tail(p)) \/ (t # <<>> /\ LikeMatch(Tail(t), p))
    ELSE IF t = <<>> THEN FALSE
    ELSE /\ (Head(p) = "_" \/ ToLowerChar(Head(p)) = ToLowerChar(Head(t)))
         /\ LikeMatch(Tail(t), Tail(p))

\* .ilike(column, pattern): a NULL column matches nothing
ILike(value, pattern) == value # NULL /\ LikeMatch(value, pattern)

\* .contains(column, values): the array column holds every one of values
Contains(array, values) ==
    /\ array # NullArray
    /\ \A i \in 1..Len(values) : \E j \in 1..Len(array) : array[j] = values[i]

\* searchParams.get(name) of a parameter the URL does not carry
Absent == <<"<absent>">>

\* `if (tech)`: null and the empty string are falsy
Given(param) == param # Absent /\ param # <<>>

(***************************************************************************)
(* GET /api/offers                                                         *)
(***************************************************************************)
\* the bug of ordering with ascending: true
OrderedByScrapedAtDesc_Ascending(s) ==
    \A i \in 1..Len(s), j \in 1..Len(s) : i < j => s[i].scraped_at <= s[j].scraped_at

\* .order('scraped_at', { ascending: false })
OrderedByScrapedAtDesc(s) ==
    \A i \in 1..Len(s), j \in 1..Len(s) : i < j => s[i].scraped_at >= s[j].scraped_at

RECURSIVE Orderings(_)
Orderings(rows) ==
    IF rows = {} THEN {<<>>}
    ELSE UNION { {<<r>> \o s : s \in Orderings(rows \ {r})} : r \in rows }

\* the rows of a select in the order asked for; rows of equal scraped_at
\* come in any order
SelectOrdered(rows) == {s \in Orderings(rows) : OrderedByScrapedAtDesc(s)}

\* the bug of dropping the location filter
MatchesFilters_TechOnly(r, tech, location) ==
    Given(tech) => Contains(r.technologies, <<Trim(tech)>>)

\* app/api/offers/route.ts: both parameters are trimmed before use
MatchesFilters(r, tech, location) ==
    /\ Given(tech) => Contains(r.technologies, <<Trim(tech)>>)
    /\ Given(location) => ILike(r.location, <<"%">> \o Trim(location) \o <<"%">>)

\* the older handler: the parameters are used as received
MatchesFiltersRaw(r, tech, location) ==
    /\ Given(tech) => Contains(r.technologies, <<tech>>)
    /\ Given(location) => ILike(r.location, <<"%">> \o location \o <<"%">>)

Digits == <<"0","1","2","3","4","5","6","7","8","9">>

IsDigit(c) == \E d \in 1..Len(Digits) : Digits[d] = c

DigitValue(c) == (CHOOSE d \in 1..Len(Digits) : Digits[d] = c) - 1

\* parseInt of a string of decimal digits
RECURSIVE ParseInt(_)
ParseInt(s) ==
    IF s = <<>> THEN 0
    ELSE ParseInt(SubSeq(s, 1, Len(s) - 1)) * 10 + DigitValue(s[Len(s)])

\* parseInt(searchParams.get('limit') || '50')
LimitOf(param) == ParseInt(IF Given(param) THEN param ELSE <<"5","0">>)

\* .limit(n)
Limit(s, n) == IF Len(s) <= n THEN s ELSE SubSeq(s, 1, n)

(***************************************************************************)
(* SpecApi: one request against a table                                    *)
(***************************************************************************)
ApiIds == {ToString(i) : i \in 1..MaxRows}

ApiPayloads ==
    [technologies : {NullArray, << <<"R","e","a","c","t">> >>,
                     << <<"r","e","a","c","t">>, <<"G","o">> >>},
     location : {NULL, <<"P","a","r","i","s">>, <<"L","y","o","n">>},
     scraped_at : 1..MaxTime]

ApiRow(id, p) ==
    [source |-> "freework", source_id |-> id, title |-> "Dev React",
     technologies |-> p.technologies, location |-> p.location,
     scraped_at |-> p.scraped_at]

\* stands for "no row with this id"
NoRow == [technologies |-> NullArray, location |-> NULL, scraped_at |-> 0]

ApiTables ==
    { {ApiRow(id, f[id]) : id \in {i \in ApiIds : f[i] # NoRow}}
      : f \in [ApiIds -> ApiPayloads \cup {NoRow}] }

TechParams == {Absent, <<"R","e","a","c","t">>, <<" ","R","e","a","c","t">>}
LocationParams == {Absent, <<>>, <<" ","p","A","r">>, <<"%">>}
LimitParams == {Absent, <<"1">>}

InitApi ==
    /\ offers \in ApiTables
    /\ written = offers
    /\ request = NoRequest
    /\ response = NoResponse
    /\ NormIdle
    /\ EtlIdle
    /\ PageIdle
    /\ PopIdle
    /\ StatsIdle
    /\ CallIdle

\* app/api/offers/route.ts GET
GetOffers(tech, location) ==
    /\ request = NoRequest
    /\ request' = [handler |-> "GET /api/offers", tech |-> tech,
                   location |-> location, limit |-> Absent]
    /\ \/ \E s \in SelectOrdered({r \in offers : MatchesFilters(r, tech, location)}) :
             response' = [status |-> 200, data |-> s]
       \/ response' = [status |-> 500, data |-> <<>>]
    /\ UNCHANGED <<offers, written, normVars, etlVars, pageVars, callVars, statsVars, popVars>>

\* the older GET handler, with a limit
GetOffersLimited(tech, location, limit) ==
    /\ request = NoRequest
    /\ request' = [handler |-> "GET /api/offers (limit)", tech |-> tech,
                   location |-> location, limit |-> limit]
    /\ \/ \E s \in SelectOrdered({r \in offers : MatchesFiltersRaw(r, tech, location)}) :
             response' = [status |-> 200, data |-> Limit(s, LimitOf(limit))]
       \/ response' = [status |-> 500, data |-> <<>>]
    /\ UNCHANGED <<offers, written, normVars, etlVars, pageVars, callVars, statsVars, popVars>>

NextApi ==
    \/ \E tech \in TechParams, location \in LocationParams : GetOffers(tech, location)
    \/ \E tech \in TechParams, location \in LocationParams, limit \in LimitParams :
          GetOffersLimited(tech, location, limit)

SpecApi == InitApi /\ [][NextApi]_vars

(***************************************************************************)
(* Claims on GET /api/offers                                               *)
(***************************************************************************)
\* x is an element of the array column, compared character for character
ElementOf(x, array) ==
    array # NullArray /\ \E j \in 1..Len(array) : array[j] = x

\* sub occurs in text, letters compared without regard to case
SubstringNoCase(sub, text) ==
    /\ text # NULL
    /\ \E i \in 0..(Len(text) - Len(sub)) :
          \A k \in 1..Len(sub) : ToLowerChar(text[i + k]) = ToLowerChar(sub[k])

PatternFree(s) == \A i \in 1..Len(s) : s[i] \notin {"%", "_", "\\"}

RowsOf(s) == {s[i] : i \in 1..Len(s)}

Answered(handler) == request.handler = handler /\ response.status = 200

Supplied(param) == param # Absent /\ param # <<>>

C10_NewestFirst ==
    (Answered("GET /api/offers") \/ Answered("GET /api/offers (limit)")) =>
        \A i \in 1..(Len(response.data) - 1) :
            response.data[i].scraped_at >= response.data[i + 1].scraped_at

\* a filtered response of two offers scraped at different times
C10_Witness ==
    /\ Answered("GET /api/offers")
    /\ request.location # Absent
    /\ Len(response.data) = 2
    /\ response.data[1].scraped_at > response.data[2].scraped_at

(***************************************************************************)
(* ETL: Rate Parser                                                        *)
(*   recognizes "X-Y€", "X à Y€", "TJM: X€" and single values; the result  *)
(*   is [found, min, max], found = FALSE when the text holds no rate       *)
(***************************************************************************)
\* the character at position i, "" past either end
CharAt(s, i) == IF i \in 1..Len(s) THEN s[i] ELSE ""

\* last position of the run of digits that starts at i
RECURSIVE DigitRunEnd(_, _)
DigitRunEnd(s, i) ==
    IF IsDigit(CharAt(s, i + 1)) THEN DigitRunEnd(s, i + 1) ELSE i

\* first position at or after i that holds no space
RECURSIVE SkipSpaces(_, _)
SkipSpaces(s, i) ==
    IF IsSpace(CharAt(s, i)) THEN SkipSpaces(s, i + 1) ELSE i

RangeSeparators == {"-", "à"}

\* (\d+)\s*(-|à)\s*(\d+)\s*€ matched at position i: [ok, min, max]
RangeAt(s, i) ==
    LET e1 == DigitRunEnd(s, i)
        k  == SkipSpaces(s, e1 + 1)
        m  == SkipSpaces(s, k + 1)
        e2 == DigitRunEnd(s, m)
        q  == SkipSpaces(s, e2 + 1)
    IN  IF /\ IsDigit(CharAt(s, i))
           /\ CharAt(s, k) \in RangeSeparators
           /\ IsDigit(CharAt(s, m))
           /\ CharAt(s, q) = "€"
        THEN [ok |-> TRUE, min |-> ParseInt(SubSeq(s, i, e1)),
              max |-> ParseInt(SubSeq(s, m, e2))]
        ELSE [ok |-> FALSE, min |-> 0, max |-> 0]

\* (\d+)\s*€ matched at position i
SingleAt(s, i) ==
    LET e1 == DigitRunEnd(s, i)
        q  == SkipSpaces(s, e1 + 1)
    IN  IF IsDigit(CharAt(s, i)) /\ CharAt(s, q) = "€"
        THEN [ok |-> TRUE, min |-> ParseInt(SubSeq(s, i, e1)),
              max |-> ParseInt(SubSeq(s, i, e1))]
        ELSE [ok |-> FALSE, min |-> 0, max |-> 0]

\* a rate field that is unset, and one that holds n
Unset == <<>>
Some(n) == <<n>>

NoRate == [found |-> FALSE, min |-> Unset, max |-> Unset]

\* the bug of defaulting the rate to 0 when no pattern is found
NoRateFound_Zero == [found |-> FALSE, min |-> Some(0), max |-> Some(0)]

NoRateFound == NoRate

\* the bug of reading a range as the single value before the separator
ParseRate_FirstNumberOnly(text) ==
    LET singles == {i \in 1..Len(text) : RangeAt(text, i).ok \/ SingleAt(text, i).ok}
    IN  IF text = NULL \/ singles = {} THEN NoRateFound
        ELSE LET i == CHOOSE j \in singles : \A k \in singles : j <= k
                 n == ParseInt(SubSeq(text, i, DigitRunEnd(text, i)))
             IN  [found |-> TRUE, min |-> Some(n), max |-> Some(n)]

\* leftmost range, else leftmost single value, else no rate
ParseRate(text) ==
    LET ranges  == {i \in 1..Len(text) : RangeAt(text, i).ok}
        singles == {i \in 1..Len(text) : SingleAt(text, i).ok}
    IN  IF text = NULL THEN NoRateFound
        ELSE IF ranges # {}
        THEN LET i == CHOOSE j \in ranges : \A k \in ranges : j <= k
             IN  [found |-> TRUE, min |-> Some(RangeAt(text, i).min),
                  max |-> Some(RangeAt(text, i).max)]
        ELSE IF singles # {}
        THEN LET i == CHOOSE j \in singles : \A k \in singles : j <= k
             IN  [found |-> TRUE, min |-> Some(SingleAt(text, i).min),
                  max |-> Some(SingleAt(text, i).max)]
        ELSE NoRateFound

(***************************************************************************)
(* Rate texts given to the parser                                          *)
(***************************************************************************)
RECURSIVE ToDigits(_)
ToDigits(n) ==
    IF n < 10 THEN <<Digits[n + 1]>>
    ELSE ToDigits(n \div 10) \o <<Digits[(n % 10) + 1]>>

RateValues == {0, 50, 450, 500, 600, 2500}

HyphenRange(x, y) == ToDigits(x) \o <<"-">> \o ToDigits(y) \o <<"€">>
ARange(x, y)      == ToDigits(x) \o <<" ","à"," ">> \o ToDigits(y) \o <<"€">>
TjmSingle(x)      == <<"T","J","M",":"," ">> \o ToDigits(x) \o <<"€">>

TextsWithoutRate ==
    { NULL, <<>>, <<"s","e","l","o","n"," ","p","r","o","f","i","l">>,
      <<"5","0","0","-","6","0","0">>, <<"€"," ","?">>, <<"T","J","M",":"," ","-","€">> }

RateTexts ==
    {HyphenRange(x, y) : x \in RateValues, y \in RateValues}
    \cup {ARange(x, y) : x \in RateValues, y \in RateValues}
    \cup {TjmSingle(x) : x \in RateValues}
    \cup TextsWithoutRate

(***************************************************************************)
(* ETL: Technology Normalizer                                              *)
(*   static mapping, looked up by the lower-cased name; a name without an  *)
(*   entry passes through                                                  *)
(***************************************************************************)
EtlTechMap ==
    { [key |-> <<"j","a","v","a","s","c","r","i","p","t">>, value |-> <<"J","a","v","a","S","c","r","i","p","t">>],
      [key |-> <<"r","e","a","c","t","j","s">>, value |-> <<"R","e","a","c","t">>],
      [key |-> <<"n","o","d","e","j","s">>, value |-> <<"N","o","d","e",".","j","s">>],
      [key |-> <<"p","o","s","t","g","r","e","s","q","l">>, value |-> <<"P","o","s","t","g","r","e","S","Q","L">>] }

NormalizeEtlTech(t) ==
    LET hits == {e \in EtlTechMap : e.key = toLowerCase(t)}
    IN  IF hits = {} THEN t ELSE (CHOOSE e \in hits : TRUE).value

NormalizeTechnologies(list) ==
    [i \in 1..Len(list) |-> NormalizeEtlTech(list[i])]

(***************************************************************************)
(* ETL: Quality Scorer                                                     *)
(*   scores are kept in hundredths: 100 stands for 1.0                     *)
(***************************************************************************)
RequiredFields  == {"source", "source_id", "title", "url"}
ImportantFields == {"company", "tjm", "technologies", "location"}
OptionalFields  == {"description", "seniority_level", "remote_policy"}
ScoredFields    == RequiredFields \cup ImportantFields \cup OptionalFields

CompletenessWeight == 40
AccuracyWeight     == 40
ConsistencyWeight  == 20

MinTitleLen     == 10
MinPlausibleTjm == 100
MaxPlausibleTjm == 2000
MaxTechnologies == 15

\* 1.0 in hundredths
FullScore == CompletenessWeight + AccuracyWeight + ConsistencyWeight

IsSet(v) == v # NULL /\ v # <<>>

FieldPresent(o, f) ==
    CASE f = "tjm"          -> o.tjm_min # Unset \/ o.tjm_max # Unset
      [] f = "technologies" -> Len(o.technologies) > 0
      [] OTHER              -> IsSet(o[f])

\* share of the checks that pass, in hundredths
Share(checks, failed) ==
    (FullScore * (Cardinality(checks) - Cardinality(failed))) \div Cardinality(checks)

Completeness(o) ==
    Share(ScoredFields, {f \in ScoredFields : ~FieldPresent(o, f)})

Plausible(rate) ==
    rate = Unset \/ (rate[1] >= MinPlausibleTjm /\ rate[1] <= MaxPlausibleTjm)

AccuracyChecks ==
    {"title_too_short", "tjm_out_of_range", "technologies_count", "company_invalid"}

AccuracyIssues(o) ==
    {c \in AccuracyChecks :
        CASE c = "title_too_short"    -> ~(IsSet(o.title) /\ Len(o.title) > MinTitleLen)
          [] c = "tjm_out_of_range"   -> ~(Plausible(o.tjm_min) /\ Plausible(o.tjm_max))
          [] c = "technologies_count" -> ~(Len(o.technologies) \in 1..MaxTechnologies)
          [] c = "company_invalid"    -> ~IsSet(o.company)}

ConsistencyChecks == {"tjm_min_above_max", "duplicate_technologies"}

\* the bug of not looking at the order of the two rates
ConsistencyIssues_RateOrderIgnored(o) ==
    {c \in ConsistencyChecks :
        /\ c = "duplicate_technologies"
        /\ \E i, j \in 1..Len(o.technologies) :
               i < j /\ o.technologies[i] = o.technologies[j]}

ConsistencyIssues(o) ==
    {c \in ConsistencyChecks :
        CASE c = "tjm_min_above_max" ->
                 /\ o.tjm_min # Unset /\ o.tjm_max # Unset
                 /\ o.tjm_min[1] > o.tjm_max[1]
          [] c = "duplicate_technologies" ->
                 \E i, j \in 1..Len(o.technologies) :
                     i < j /\ o.technologies[i] = o.technologies[j]}

\* the bug of adding the three scores up without their weights
OverallScore_Unweighted(completeness, accuracy, consistency) ==
    completeness + accuracy + consistency

OverallScore(completeness, accuracy, consistency) ==
    (CompletenessWeight * completeness + AccuracyWeight * accuracy
        + ConsistencyWeight * consistency) \div FullScore

QualityScore(o) ==
    LET completeness == Completeness(o)
        accuracy     == Share(AccuracyChecks, AccuracyIssues(o))
        consistency  == Share(ConsistencyChecks, ConsistencyIssues(o))
    IN  [completeness |-> completeness,
         accuracy     |-> accuracy,
         consistency  |-> consistency,
         overall      |-> OverallScore(completeness, accuracy, consistency),
         issues       |-> AccuracyIssues(o) \cup ConsistencyIssues(o)]

(***************************************************************************)
(* ETL: the transformation of one raw record                               *)
(***************************************************************************)
MissingRequired(raw) == \E f \in RequiredFields : ~IsSet(raw[f])

Transform(raw) ==
    LET rate  == ParseRate(raw.rate_text)
        offer == [source          |-> raw.source,
                  source_id       |-> raw.source_id,
                  title           |-> raw.title,
                  url             |-> raw.url,
                  company         |-> raw.company,
                  technologies    |-> NormalizeTechnologies(raw.technologies),
                  location        |-> raw.location,
                  description     |-> raw.description,
                  seniority_level |-> raw.seniority_level,
                  remote_policy   |-> raw.remote_policy,
                  scraped_at      |-> raw.scraped_at,
                  tjm_min         |-> rate.min,
                  tjm_max         |-> rate.max]
        quality == QualityScore(offer)
    IN  [status  |-> IF MissingRequired(raw) THEN "skipped" ELSE "valid",
         offer   |-> offer,
         quality |-> quality]

\* the bug of giving the run up at a record that cannot be kept
StatusAfterRecord_AbortOnFailure(result) ==
    IF result.status = "skipped" THEN "aborted" ELSE "transform"

\* the run goes on to the next record whatever became of this one
StatusAfterRecord(result) == "transform"

(***************************************************************************)
(* SpecEtl: one run of the pipeline over a batch of raw records            *)
(***************************************************************************)
MaxBatch == 3

EtlSource  == <<"f","r","e","e","w","o","r","k">>
ShortTitle == <<"D","e","v">>
LongTitle  == <<"D","e","v"," ","R","e","a","c","t"," ","S","e","n","i","o","r">>

RawTechnologies ==
    { <<>>, << <<"n","o","d","e","j","s">> >>, << <<"r","e","a","c","t","j","s">>, <<"R","e","a","c","t">> >> }

\* a raw record, with the fields the run varies as arguments
Raw(id, title, company, rate_text, technologies) ==
    [source          |-> EtlSource,
     source_id       |-> id,
     title           |-> title,
     url             |-> <<"h","t","t","p","s",":","/","/","x","/","1">>,
     company         |-> company,
     rate_text       |-> rate_text,
     technologies    |-> technologies,
     location        |-> <<"P","a","r","i","s">>,
     description     |-> <<"M","i","s","s","i","o","n"," ","l","o","n","g","u","e">>,
     seniority_level |-> NULL,
     remote_policy   |-> NULL,
     scraped_at      |-> 1]

\* a raw record with every field missing
AllMissing ==
    [source          |-> NULL,
     source_id       |-> NULL,
     title           |-> NULL,
     url             |-> NULL,
     company         |-> NULL,
     rate_text       |-> NULL,
     technologies    |-> <<>>,
     location        |-> NULL,
     description     |-> NULL,
     seniority_level |-> NULL,
     remote_policy   |-> NULL,
     scraped_at      |-> 1]

RawRecords ==
    { Raw(<<"1">>, title, company, text, technologies) :
        title \in {NULL, ShortTitle, LongTitle},
        company \in {NULL, <<"A","c","m","e">>},
        text \in RateTexts,
        technologies \in RawTechnologies }
    \cup {AllMissing}

\* the records batches are made of: two with the same (source, source_id),
\* one with a reversed range, one without a rate, one without a title
BatchRecords ==
    { Raw(<<"1">>, LongTitle, <<"A","c","m","e">>, HyphenRange(500, 600), << <<"n","o","d","e","j","s">> >>),
      Raw(<<"1">>, LongTitle, <<"A","c","m","e">>, ARange(450, 600), << <<"n","o","d","e","j","s">> >>),
      Raw(<<"2">>, LongTitle, <<"A","c","m","e">>, TjmSingle(500), << <<"r","e","a","c","t","j","s">>, <<"R","e","a","c","t">> >>),
      Raw(<<"2">>, LongTitle, NULL, HyphenRange(600, 500), << <<"n","o","d","e","j","s">> >>),
      Raw(<<"2">>, ShortTitle, <<"A","c","m","e">>, <<"s","e","l","o","n"," ","p","r","o","f","i","l">>, <<>>),
      Raw(<<"1">>, NULL, <<"A","c","m","e">>, HyphenRange(500, 600), << <<"n","o","d","e","j","s">> >>) }

RECURSIVE SeqsUpTo(_, _)
SeqsUpTo(S, n) ==
    IF n = 0 THEN {<<>>}
    ELSE LET shorter == SeqsUpTo(S, n - 1)
         IN  shorter \cup {Append(q, x) : q \in shorter, x \in S}

EtlBatches ==
    (SeqsUpTo(BatchRecords, MaxBatch) \ {<<>>}) \cup {<<raw>> : raw \in RawRecords}

InitEtl ==
    /\ batch \in EtlBatches
    /\ pos = 1
    /\ outcome = <<>>
    /\ etlStatus = "transform"
    /\ dbReachable = TRUE
    /\ DbIdle
    /\ NormIdle
    /\ PageIdle
    /\ PopIdle
    /\ StatsIdle
    /\ CallIdle

\* the next raw record is parsed, normalized and scored
TransformRecord ==
    /\ etlStatus = "transform"
    /\ pos <= Len(batch)
    /\ LET result == Transform(batch[pos])
       IN  /\ outcome' = Append(outcome, result)
           /\ etlStatus' = StatusAfterRecord(result)
    /\ pos' = pos + 1
    /\ UNCHANGED <<batch, dbReachable, dbVars, normVars, pageVars, callVars, statsVars, popVars>>

\* every record is transformed: the loader takes over
StartLoad ==
    /\ etlStatus = "transform"
    /\ pos > Len(batch)
    /\ etlStatus' = "load"
    /\ pos' = 1
    /\ UNCHANGED <<batch, outcome, dbReachable, dbVars, normVars, pageVars, callVars, statsVars, popVars>>

\* the next offer is upserted; a skipped record is passed over; a database
\* that does not answer ends the run
LoadRecord ==
    /\ etlStatus = "load"
    /\ pos <= Len(outcome)
    /\ IF outcome[pos].status = "skipped"
       THEN /\ pos' = pos + 1
            /\ UNCHANGED <<etlStatus, offers, written>>
       ELSE IF ~dbReachable
       THEN /\ etlStatus' = "aborted"
            /\ UNCHANGED <<pos, offers, written>>
       ELSE /\ offers' = Upsert(offers, outcome[pos].offer)
            /\ written' = RecordWrite(written, outcome[pos].offer)
            /\ pos' = pos + 1
            /\ UNCHANGED etlStatus
    /\ UNCHANGED <<batch, outcome, dbReachable, request, response, normVars, pageVars, callVars, statsVars, popVars>>

\* every offer is loaded
FinishRun ==
    /\ etlStatus = "load"
    /\ pos > Len(outcome)
    /\ etlStatus' = "done"
    /\ UNCHANGED <<batch, pos, outcome, dbReachable, dbVars, normVars, pageVars, callVars, statsVars, popVars>>

\* the connection to the database is lost during the run
DbConnectionLost ==
    /\ etlStatus \in {"transform", "load"}
    /\ dbReachable
    /\ dbReachable' = FALSE
    /\ UNCHANGED <<batch, pos, outcome, etlStatus, dbVars, normVars, pageVars, callVars, statsVars, popVars>>

NextEtl ==
    \/ TransformRecord
    \/ StartLoad
    \/ LoadRecord
    \/ FinishRun
    \/ DbConnectionLost

SpecEtl == InitEtl /\ [][NextEtl]_vars

(***************************************************************************)
(* isValidTjmRange                                                         *)
(***************************************************************************)
isValidTjmRange(min, max) == min > 0 /\ max > 0 /\ min <= max

(***************************************************************************)
(* Claims on the pipeline                                                  *)
(***************************************************************************)
Handled == 1..Len(outcome)

BothRatesSet(o) == o.tjm_min # Unset /\ o.tjm_max # Unset

Flagged(result) ==
    /\ "tjm_min_above_max" \in result.quality.issues
    /\ result.quality.consistency < FullScore

\* C2: a record that leaves the transformation with both rates set has
\* rate_min <= rate_max, or else carries the issue of a reversed range and a
\* consistency score below 1.0; isValidTjmRange accepts its two rates only
\* when both are above 0 and min <= max.
C2_RateOrderOrFlagged ==
    \A i \in Handled :
        LET o == outcome[i].offer
        IN  BothRatesSet(o) =>
              /\ o.tjm_min[1] <= o.tjm_max[1] \/ Flagged(outcome[i])
              /\ isValidTjmRange(o.tjm_min[1], o.tjm_max[1]) =>
                     /\ o.tjm_min[1] > 0
                     /\ o.tjm_max[1] > 0
                     /\ o.tjm_min[1] <= o.tjm_max[1]

\* a reversed range was parsed, kept as it is, and flagged
C2_Witness ==
    \E i \in Handled :
        /\ batch[i].rate_text = HyphenRange(600, 500)
        /\ outcome[i].offer.tjm_min = Some(600)
        /\ outcome[i].offer.tjm_max = Some(500)
        /\ Flagged(outcome[i])

InUnitRange(score) == score >= 0 /\ score <= FullScore

\* C3: whatever the record, every field missing or rates out of any range
\* included, the overall quality score and its three parts lie in [0, 1].
C3_ScoreInUnitRange ==
    \A i \in Handled :
        LET q == outcome[i].quality
        IN  /\ InUnitRange(q.overall)
            /\ InUnitRange(q.completeness)
            /\ InUnitRange(q.accuracy)
            /\ InUnitRange(q.consistency)

\* the record with every field missing has been scored
C3_Witness ==
    /\ batch = <<AllMissing>>
    /\ Len(outcome) = 1
    /\ outcome[1].quality.completeness = 0
    /\ outcome[1].quality.overall > 0

\* C4: a rate text "X-Y€" or "X à Y€" is parsed to rate_min = X and
\* rate_max = Y, and "TJM: X€" to rate_min = rate_max = X.
C4_PatternsParsed ==
    \A i \in Handled : \A x \in RateValues :
        LET o == outcome[i].offer
        IN  /\ \A y \in RateValues :
                  batch[i].rate_text \in {HyphenRange(x, y), ARange(x, y)} =>
                      o.tjm_min = Some(x) /\ o.tjm_max = Some(y)
            /\ batch[i].rate_text = TjmSingle(x) =>
                      o.tjm_min = Some(x) /\ o.tjm_max = Some(x)

\* "450 à 600€" was parsed to 450 and 600
C4_Witness ==
    \E i \in Handled :
        /\ batch[i].rate_text = ARange(450, 600)
        /\ outcome[i].offer.tjm_min = Some(450)
        /\ outcome[i].offer.tjm_max = Some(600)

\* the record fails its transformation: no rate in its text, or a required
\* field missing
HasNoRate(raw) == raw.rate_text \in TextsWithoutRate
Fails(raw) == HasNoRate(raw) \/ MissingRequired(raw)

\* the offer of record i is in the table, unless a later record of the batch
\* with the same (source, source_id) took its place
LoadedOrReplaced(i) ==
    \/ outcome[i].offer \in offers
    \/ \E j \in Handled :
          /\ j > i
          /\ outcome[j].status = "valid"
          /\ OfferKey(outcome[j].offer) = OfferKey(outcome[i].offer)
          /\ outcome[j].offer \in offers

\* C7: a record that fails its transformation never ends the run: only a
\* database that does not answer does, every record of the batch is
\* transformed, and at the end of the run every record that did not fail is
\* loaded while a failing one is skipped or stored with a quality score
\* below 1.0.
C7_RecordFailureNeverAborts ==
    /\ etlStatus = "aborted" => ~dbReachable
    /\ etlStatus \in {"load", "done", "aborted"} => Len(outcome) = Len(batch)
    /\ etlStatus = "done" =>
         \A i \in Handled :
             IF Fails(batch[i])
             THEN \/ outcome[i].status = "skipped"
                  \/ /\ LoadedOrReplaced(i)
                     /\ outcome[i].quality.overall < FullScore
             ELSE outcome[i].status = "valid" /\ LoadedOrReplaced(i)

\* a run ended after a failing record at the head of its batch, with a later
\* record loaded
C7_Witness ==
    /\ etlStatus = "done"
    /\ Len(batch) = MaxBatch
    /\ MissingRequired(batch[1])
    /\ outcome[1].status = "skipped"
    /\ HasNoRate(batch[2])
    /\ ~Fails(batch[MaxBatch])
    /\ outcome[MaxBatch].offer \in offers

\* C8: for a rate text that holds no recognizable pattern the parser ends
\* without an error and the record keeps rate_min and rate_max unset, not 0.
C8_NoPatternLeavesRateUnset ==
    /\ \A i \in Handled :
          HasNoRate(batch[i]) =>
              /\ outcome[i].offer.tjm_min = Unset
              /\ outcome[i].offer.tjm_max = Unset
    /\ \A i \in 1..Len(batch) :
          HasNoRate(batch[i]) /\ etlStatus \in {"load", "done"} => i \in Handled

\* "selon profil" was handled and left the rate unset
C8_Witness ==
    \E i \in Handled :
        /\ batch[i].rate_text = <<"s","e","l","o","n"," ","p","r","o","f","i","l">>
        /\ outcome[i].offer.tjm_min = Unset
        /\ outcome[i].offer.tjm_max = Unset
        /\ outcome[i].status = "valid"

(***************************************************************************)
(* SpecNorm                                                                *)
(***************************************************************************)
InitNorm ==
    /\ techIn \in TechInputs
    /\ techOut = NoValue
    /\ DbIdle
    /\ EtlIdle
    /\ PageIdle
    /\ PopIdle
    /\ StatsIdle
    /\ CallIdle

Normalize ==
    /\ techOut = NoValue
    /\ techOut' = normalizeTechnology(techIn)
    /\ UNCHANGED <<techIn, dbVars, etlVars, pageVars, callVars, statsVars, popVars>>

NextNorm == Normalize

SpecNorm == InitNorm /\ [][NextNorm]_vars

(***************************************************************************)
(* Claims on normalizeTechnology                                           *)
(***************************************************************************)
Normalized == techOut # NoValue

\* the variants of one technology, as the mapping table groups them
ReactVariants      == { <<"r","e","a","c","t">>, <<"r","e","a","c","t","j","s">> }
JavascriptVariants == { <<"j","a","v","a","s","c","r","i","p","t">>, <<"j","s">> }
VueVariants        == { <<"v","u","e">>, <<"v","u","e","j","s">> }
NodeVariants       == { <<"n","o","d","e">>, <<"n","o","d","e","j","s">> }

\* C5: normalization is case-insensitive and sends every variant of a
\* technology to one canonical value: an input that lower-cases to "react"
\* or "reactjs" yields "React" whatever its casing, and likewise the
\* JavaScript variants yield "Javascript", the Vue variants "Vue.js" and the
\* Node.js variants "Node.js".
C5_VariantsShareCanonical ==
    Normalized =>
        /\ toLowerCase(techIn) \in ReactVariants => techOut = <<"R","e","a","c","t">>
        /\ toLowerCase(techIn) \in JavascriptVariants
              => techOut = <<"J","a","v","a","s","c","r","i","p","t">>
        /\ toLowerCase(techIn) \in VueVariants => techOut = <<"V","u","e",".","j","s">>
        /\ toLowerCase(techIn) \in NodeVariants => techOut = <<"N","o","d","e",".","j","s">>

\* normalizeTechnology('REACT') has returned 'React'
C5_Witness ==
    /\ Normalized
    /\ techIn = <<"R","E","A","C","T">>
    /\ techOut = <<"R","e","a","c","t">>

\* C6: an input whose lower-cased form is no key of the mapping table comes
\* back unchanged, character for character.
C6_UnknownUnchanged ==
    (Normalized /\ toLowerCase(techIn) \notin techMapKeys) => techOut = techIn

(***************************************************************************)
(* The home page: SearchBar, SearchSuggestions, useSearch, SearchResults   *)
(* and OfferModal.  An event is handled together with the render and the   *)
(* effects that follow it.                                                 *)
(***************************************************************************)
MaxOffers  == 16
MaxCards   == 2
MaxPending == 2

\* the offers of the page's database: every one a React mission, scraped
\* one after the other
PageOffer(i) ==
    [source |-> "freework", source_id |-> ToString(i), title |-> "Dev React",
     technologies |-> << <<"R","e","a","c","t">> >>,
     location |-> IF i % 2 = 1 THEN <<"P","a","r","i","s">> ELSE <<"L","y","o","n",","," ","F","r","a","n","c","e">>,
     scraped_at |-> i,
     tjm_min |-> IF i % 3 = 0 THEN Unset ELSE Some(400 + i),
     tjm_max |-> IF i % 3 = 1 THEN Unset ELSE Some(600 + i)]

\* the tables of at most max offers
PageTables(max) == { {PageOffer(i) : i \in 1..n} : n \in 0..max }

\* .order('scraped_at', { ascending: false }) over rows of distinct
\* scraped_at: the one sequence of SelectOrdered
RECURSIVE NewestFirst(_)
NewestFirst(rows) ==
    IF rows = {} THEN <<>>
    ELSE LET r == CHOOSE x \in rows : \A y \in rows : x.scraped_at >= y.scraped_at
         IN  <<r>> \o NewestFirst(rows \ {r})

\* GET /api/offers?tech=..&location=.. as the page calls it
SearchOffers(params) ==
    NewestFirst({r \in offers : MatchesFilters(r, params.technologies, params.location)})

\* HomePage: SearchResults is rendered once a search has a criterion
HasCriterion(searchParams) ==
    /\ searchParams # <<>>
    /\ searchParams[1].technologies # <<>> \/ searchParams[1].location # <<>>

\* the bug of rendering the error before the spinner
SearchResultsView_ErrorFirst(results, loading, error, searchParams) ==
    IF error # <<>> THEN "error"
    ELSE IF loading THEN "spinner"
    ELSE IF results = <<>> \/ searchParams = <<>> THEN "nothing"
    ELSE IF Len(results[1]) = 0 THEN "empty"
    ELSE "cards"

\* SearchResults: what it returns for its props
SearchResultsView(results, loading, error, searchParams) ==
    IF loading THEN "spinner"
    ELSE IF error # <<>> THEN "error"
    ELSE IF results = <<>> \/ searchParams = <<>> THEN "nothing"
    ELSE IF Len(results[1]) = 0 THEN "empty"
    ELSE "cards"

\* what the page shows of its search
PageView(st) ==
    IF HasCriterion(st.searchParams)
    THEN SearchResultsView(st.results, st.loading, st.error, st.searchParams)
    ELSE "nothing"

\* the OfferCards on the page
CardsShown(st) ==
    IF PageView(st) = "cards" THEN Len(st.results[1]) ELSE 0

\* OfferModal is mounted with isOpen
ModalShown(st, selected) == PageView(st) = "cards" /\ selected # <<>>

\* OfferModal's effect and its cleanup, after a render
AfterEffects(wasShown, isShown, doc) ==
    IF isShown THEN [overflow |-> "hidden", keydown |-> TRUE]
    ELSE IF wasShown THEN [overflow |-> "unset", keydown |-> FALSE]
    ELSE doc

\* the render that follows an event: the new state of useSearch and of
\* selectedOffer decide the document's; selectedOffer is lost when HomePage
\* unmounts SearchResults
Rendered(st, selected, event) ==
    /\ search' = st
    /\ selectedOffer' = IF HasCriterion(st.searchParams) THEN selected ELSE <<>>
    /\ document' = AfterEffects(ModalShown(search, selectedOffer),
                                ModalShown(st, selected), document)
    /\ modalEvent' = event

(***************************************************************************)
(* SpecPage: the events of the home page                                   *)
(***************************************************************************)
TypedTechnologies == {<<>>, <<" ">>}
TypedLocations    == {<<>>, <<"P","a","r","i","s">>}

\* SearchSuggestions: "React à Paris", "React", "Lyon"
Suggestions ==
    { [technologies |-> <<"R","e","a","c","t">>, location |-> <<"P","a","r","i","s">>],
      [technologies |-> <<"R","e","a","c","t">>, location |-> <<>>],
      [technologies |-> <<>>, location |-> <<"L","y","o","n">>] }

\* the bug of a button that is only disabled during a search
SubmitDisabled_LoadingOnly(formData, isLoading) == isLoading

\* SearchBar: disabled of the "Rechercher" button
SubmitDisabled(formData, isLoading) ==
    isLoading \/ (formData.technologies = <<>> /\ formData.location = <<>>)

\* handleSearch up to its first await
StartedSearch(st, searchData) ==
    [st EXCEPT !.searchParams = Some(searchData), !.loading = TRUE, !.error = <<>>]

\* origin tells the search bar from a suggestion
handleSearch(searchData, origin) ==
    /\ BagCardinality(pending) < MaxPending
    /\ pending' = pending (+) SetToBag({[params |-> searchData, origin |-> origin]})
    /\ Rendered(StartedSearch(search, searchData), selectedOffer, NoModalEvent)

InitPage ==
    /\ offers \in PageTables(MaxCards)
    /\ written = offers
    /\ request = NoRequest
    /\ response = NoResponse
    /\ PageIdle
    /\ PopIdle
    /\ StatsIdle
    /\ NormIdle
    /\ EtlIdle
    /\ CallIdle

\* SearchBar: onChange of the two inputs
TypeTechnologies(value) ==
    /\ ~ModalShown(search, selectedOffer)
    /\ form.technologies # value
    /\ form' = [form EXCEPT !.technologies = value]
    /\ modalEvent' = NoModalEvent
    /\ UNCHANGED <<search, pending, selectedOffer, document>>
    /\ UNCHANGED <<dbVars, normVars, etlVars, callVars, statsVars, popVars>>

TypeLocation(value) ==
    /\ ~ModalShown(search, selectedOffer)
    /\ form.location # value
    /\ form' = [form EXCEPT !.location = value]
    /\ modalEvent' = NoModalEvent
    /\ UNCHANGED <<search, pending, selectedOffer, document>>
    /\ UNCHANGED <<dbVars, normVars, etlVars, callVars, statsVars, popVars>>

\* SearchBar: handleSubmit, by the button when it is not disabled
SubmitSearch ==
    /\ ~ModalShown(search, selectedOffer)
    /\ ~SubmitDisabled(form, search.loading)
    /\ handleSearch(form, "search bar")
    /\ UNCHANGED form
    /\ UNCHANGED <<dbVars, normVars, etlVars, callVars, statsVars, popVars>>

\* HomePage: handleSuggestionClick
ClickSuggestion(suggestion) ==
    /\ ~ModalShown(search, selectedOffer)
    /\ handleSearch(suggestion, "suggestion")
    /\ UNCHANGED form
    /\ UNCHANGED <<dbVars, normVars, etlVars, callVars, statsVars, popVars>>

\* handleSearch after its awaits: the response has come
SearchReturns(p) ==
    /\ BagIn(p, pending)
    /\ pending' = pending (-) SetToBag({p})
    /\ Rendered([search EXCEPT !.loading = FALSE, !.error = <<>>,
                               !.results = Some(SearchOffers(p.params))],
                selectedOffer, NoModalEvent)
    /\ UNCHANGED form
    /\ UNCHANGED <<dbVars, normVars, etlVars, callVars, statsVars, popVars>>

\* handleSearch in its catch: the request has failed
SearchFails(p) ==
    /\ BagIn(p, pending)
    /\ pending' = pending (-) SetToBag({p})
    /\ Rendered([search EXCEPT !.loading = FALSE,
                               !.error = Some("API error: 500")],
                selectedOffer, NoModalEvent)
    /\ UNCHANGED form
    /\ UNCHANGED <<dbVars, normVars, etlVars, callVars, statsVars, popVars>>

\* OfferCard: "Voir l'offre" of the card at position i
ViewOffer(i) ==
    /\ PageView(search) = "cards"
    /\ ~ModalShown(search, selectedOffer)
    /\ i \in 1..Len(search.results[1])
    /\ Rendered(search, Some(search.results[1][i]), [kind |-> "view", card |-> i])
    /\ UNCHANGED <<form, pending>>
    /\ UNCHANGED <<dbVars, normVars, etlVars, callVars, statsVars, popVars>>

\* the bug of an onClose that keeps the offer selected
Closed_OfferKept(selected) == selected

\* onClose: setSelectedOffer(null)
Closed(selected) == <<>>

\* OfferModal: the X button, the "Fermer" button and the overlay call onClose
CloseModal(control) ==
    /\ ModalShown(search, selectedOffer)
    /\ Rendered(search, Closed(selectedOffer), [kind |-> control, card |-> 0])
    /\ UNCHANGED <<form, pending>>
    /\ UNCHANGED <<dbVars, normVars, etlVars, callVars, statsVars, popVars>>

CloseControls == {"x button", "fermer button", "overlay"}

\* handleEscape, while the listener is registered
PressEscape ==
    /\ document.keydown
    /\ Rendered(search, Closed(selectedOffer), [kind |-> "escape", card |-> 0])
    /\ UNCHANGED <<form, pending>>
    /\ UNCHANGED <<dbVars, normVars, etlVars, callVars, statsVars, popVars>>

\* a click inside the modal: stopPropagation keeps it from the overlay
ClickModalContent ==
    /\ ModalShown(search, selectedOffer)
    /\ Rendered(search, selectedOffer, [kind |-> "content", card |-> 0])
    /\ UNCHANGED <<form, pending>>
    /\ UNCHANGED <<dbVars, normVars, etlVars, callVars, statsVars, popVars>>

NextPage ==
    \/ \E value \in TypedTechnologies : TypeTechnologies(value)
    \/ \E value \in TypedLocations : TypeLocation(value)
    \/ SubmitSearch
    \/ \E suggestion \in Suggestions : ClickSuggestion(suggestion)
    \/ \E p \in BagToSet(pending) : SearchReturns(p)
    \/ \E p \in BagToSet(pending) : SearchFails(p)
    \/ \E i \in 1..MaxCards : ViewOffer(i)
    \/ \E control \in CloseControls : CloseModal(control)
    \/ PressEscape
    \/ ClickModalContent

SpecPage == InitPage /\ [][NextPage]_vars

(***************************************************************************)
(* SpecDisplay: the searches of the suggestions over tables of up to       *)
(* MaxOffers offers                                                        *)
(***************************************************************************)
InitDisplay ==
    /\ offers \in PageTables(MaxOffers)
    /\ written = offers
    /\ request = NoRequest
    /\ response = NoResponse
    /\ PageIdle
    /\ PopIdle
    /\ StatsIdle
    /\ NormIdle
    /\ EtlIdle
    /\ CallIdle

NextDisplay ==
    \/ \E suggestion \in Suggestions : ClickSuggestion(suggestion)
    \/ \E p \in BagToSet(pending) : SearchReturns(p)
    \/ \E p \in BagToSet(pending) : SearchFails(p)

SpecDisplay == InitDisplay /\ [][NextDisplay]_vars

(***************************************************************************)
(* Claims about the home page                                              *)
(***************************************************************************)
\* SearchResults.tsx: "(limité à 15 max)" in the header of the results
DisplayLimit == 15

\* C11: for any database content and any search, at most 15 offer cards
\* are displayed by SearchResults.
C11_AtMostFifteenCards == CardsShown(search) <= DisplayLimit

\* the searches started from the search bar that have not returned
BarSearches == {p \in BagToSet(pending) : p.origin = "search bar"}

C13_LoadingWhilePending == BagCardinality(pending) > 0 => search.loading

(***************************************************************************)
(* SpecRender: one render of SearchResults for given props                 *)
(***************************************************************************)
MaxResults == 2

\* Math.round of sum / n, for sum >= 0 and n > 0
RoundedMean(sum, n) == (2 * sum + n) \div (2 * n)

RECURSIVE SumSeq(_)
SumSeq(s) == IF s = <<>> THEN 0 ELSE s[1] + SumSeq(Tail(s))

\* offer.tjm_min || offer.tjm_max || 0: null and 0 are falsy
TjmOf(offer) ==
    IF offer.tjm_min # Unset /\ offer.tjm_min[1] # 0 THEN offer.tjm_min[1]
    ELSE IF offer.tjm_max # Unset /\ offer.tjm_max[1] # 0 THEN offer.tjm_max[1]
    ELSE 0

\* .filter(tjm => tjm > 0)
Positive(s) == SelectSeq(s, LAMBDA tjm : tjm > 0)

\* SearchResults: avgTjm of the header, null without a positive TJM
HeaderAvgTjm(results) ==
    LET tjms == Positive([i \in 1..Len(results) |-> TjmOf(results[i])])
    IN  IF Len(tjms) > 0 THEN Some(RoundedMean(SumSeq(tjms), Len(tjms))) ELSE Unset

\* what a render of SearchResults gives: the branch taken and, with the
\* cards, the average of the header
RenderSearchResults(props) ==
    LET view == SearchResultsView(props[1], props[2], props[3], props[4])
    IN  <<view, IF view = "cards" THEN HeaderAvgTjm(props[1][1]) ELSE Unset>>

RenderOffers ==
    { [PageOffer(1) EXCEPT !.tjm_min = min, !.tjm_max = max] :
        min \in {Unset, Some(400), Some(501)}, max \in {Unset, Some(600)} }

\* results: null or an array of offers
RenderResults ==
    {Unset} \cup {Some(s) : s \in UNION {[1..n -> RenderOffers] : n \in 0..MaxResults}}

\* error: null or the message of the Error caught by handleSearch
RenderErrors == {Unset, Some("API error: 500")}

\* searchParams: null or the criteria of the search
RenderParams == {Unset, Some([technologies |-> <<"R","e","a","c","t">>, location |-> <<>>])}

\* the props <<results, loading, error, searchParams>>
RenderProps == RenderResults \X BOOLEAN \X RenderErrors \X RenderParams

InitRender ==
    /\ input \in RenderProps
    /\ output = NoValue
    /\ NormIdle
    /\ DbIdle
    /\ EtlIdle
    /\ PageIdle
    /\ PopIdle
    /\ StatsIdle

Render ==
    /\ Len(output) = 1
    /\ output' = RenderSearchResults(input)
    /\ UNCHANGED input
    /\ UNCHANGED <<normVars, dbVars, etlVars, pageVars, statsVars, popVars>>

NextRender == Render

SpecRender == InitRender /\ [][NextRender]_vars

\* the render has happened
WasRendered == Len(output) = 2

\* C14: SearchResults renders the spinner whenever loading is true;
\* otherwise the error whenever error is not null; otherwise nothing when
\* results or searchParams is null; otherwise the 'Aucun résultat' message
\* when the list is empty; otherwise the cards.  Cards are never shown while
\* loading or while an error is set.
C14_OneViewByPrecedence ==
    WasRendered =>
        LET results == input[1]
            loading == input[2]
            error == input[3]
            searchParams == input[4]
            view == output[1]
            noData == results = Unset \/ searchParams = Unset
        IN  /\ view \in {"spinner", "error", "nothing", "empty", "cards"}
            /\ loading => view = "spinner"
            /\ (~loading /\ error # Unset) => view = "error"
            /\ (~loading /\ error = Unset /\ noData) => view = "nothing"
            /\ (~loading /\ error = Unset /\ ~noData /\ results[1] = <<>>)
                   => view = "empty"
            /\ (~loading /\ error = Unset /\ ~noData /\ results[1] # <<>>)
                   => view = "cards"
            /\ view = "cards" => (~loading /\ error = Unset)

\* the error is rendered although results are there, and the spinner
\* although an error is set
C14_Witness ==
    /\ WasRendered
    /\ \/ output[1] = "error" /\ input[1] # Unset /\ input[1][1] # <<>>
       \/ output[1] = "spinner" /\ input[3] # Unset

\* every offer of the list has both tjm_min and tjm_max
BothTjmSet(results) ==
    \A i \in 1..Len(results) :
        results[i].tjm_min # Unset /\ results[i].tjm_max # Unset

\* the sum over the offers of tjm_min + tjm_max
SumMinMax(results) ==
    SumSeq([i \in 1..Len(results) |-> results[i].tjm_min[1] + results[i].tjm_max[1]])

\* C15: the average TJM of the header is the mean over the offers found of
\* the average of each offer's tjm_min and tjm_max, rounded to the nearest
\* integer.
C15_HeaderMeanOfMinMax ==
    (WasRendered /\ output[1] = "cards" /\ BothTjmSet(input[1][1])) =>
        output[2] = Some(RoundedMean(SumMinMax(input[1][1]), 2 * Len(input[1][1])))

(***************************************************************************)
(* GET /api/location-stats                                                 *)
(***************************************************************************)
\* String.prototype.split(',')
RECURSIVE Split(_, _)
Split(s, sep) ==
    IF \A i \in 1..Len(s) : s[i] # sep THEN <<s>>
    ELSE LET i == CHOOSE k \in 1..Len(s) :
                      s[k] = sep /\ \A j \in 1..(k - 1) : s[j] # sep
         IN  <<SubSeq(s, 1, i - 1)>> \o Split(SubSeq(s, i + 1, Len(s)), sep)

\* offer.location.split(',').map(p => p.trim())
LocationParts(location) ==
    LET parts == Split(location, ",") IN [i \in 1..Len(parts) |-> Trim(parts[i])]

\* parts[0] || offer.location
CityOf(location) ==
    LET parts == LocationParts(location)
    IN  IF parts[1] # <<>> THEN parts[1] ELSE location

\* parts[1] || parts[0] || 'France'
RegionOf(location) ==
    LET parts == LocationParts(location)
    IN  IF Len(parts) >= 2 /\ parts[2] # <<>> THEN parts[2]
        ELSE IF parts[1] # <<>> THEN parts[1]
        ELSE <<"F","r","a","n","c","e">>

\* the bug of a key that keeps the city's case
CityKey_CaseSensitive(city) == city

\* key = city.toLowerCase()
CityKey(city) == toLowerCase(city)

\* `if (!offer.location) return`: null and '' are skipped
HasLocation(offer) == offer.location # NULL /\ offer.location # <<>>

\* the valid TJM of an offer: tjm_min, then tjm_max, each when > 0
ValidTjms(offer) ==
    (IF offer.tjm_min # Unset /\ offer.tjm_min[1] > 0 THEN <<offer.tjm_min[1]>> ELSE <<>>)
    \o (IF offer.tjm_max # Unset /\ offer.tjm_max[1] > 0 THEN <<offer.tjm_max[1]>> ELSE <<>>)

\* one step of the forEach: locationMap after the offer, as the sequence of
\* its entries in insertion order
Counted(groups, offer) ==
    IF ~HasLocation(offer) THEN groups
    ELSE LET city == CityOf(offer.location)
             key == CityKey(city)
             withKey == IF \E i \in 1..Len(groups) : groups[i].key = key
                        THEN groups
                        ELSE Append(groups, [key |-> key, count |-> 0, tjms |-> <<>>,
                                             city |-> city,
                                             region |-> RegionOf(offer.location)])
         IN  [i \in 1..Len(withKey) |->
                 IF withKey[i].key = key
                 THEN [withKey[i] EXCEPT !.count = withKey[i].count + 1,
                                         !.tjms = withKey[i].tjms \o ValidTjms(offer)]
                 ELSE withKey[i]]

\* offers.forEach(...)
RECURSIVE LocationMap(_)
LocationMap(scan) ==
    IF scan = <<>> THEN <<>>
    ELSE Counted(LocationMap(SubSeq(scan, 1, Len(scan) - 1)), scan[Len(scan)])

\* Math.round of the mean, 0 for no value
MeanOrZero(values) ==
    IF Len(values) > 0 THEN RoundedMean(SumSeq(values), Len(values)) ELSE 0

\* the LocationData of an entry (coordinates, a static lookup by city, are
\* left out)
LocationData(data) ==
    [city |-> data.city, region |-> data.region,
     averageTjm |-> MeanOrZero(data.tjms), offerCount |-> data.count]

\* the place of x in t, a sequence in non-increasing order of field: after
\* the elements that do not come after it
InsertDesc(x, t, field) ==
    LET k == Cardinality({i \in 1..Len(t) : t[i][field] >= x[field]})
    IN  SubSeq(t, 1, k) \o <<x>> \o SubSeq(t, k + 1, Len(t))

\* the bug of leaving the list in insertion order
SortedDesc_Unsorted(s, field) == s

\* Array.prototype.sort((a, b) => b[field] - a[field]), which is stable
RECURSIVE SortedDesc(_, _)
SortedDesc(s, field) ==
    IF s = <<>> THEN <<>>
    ELSE InsertDesc(s[Len(s)], SortedDesc(SubSeq(s, 1, Len(s) - 1), field), field)

\* the cities listed in summary.topCities
TopCities == 5

\* Array.prototype.slice(0, n)
Slice(s, n) == IF Len(s) <= n THEN s ELSE SubSeq(s, 1, n)

\* the body of the 200 response for the offers in the order of the select
LocationStats(scan) ==
    LET entries == LocationMap(scan)
        locations == SortedDesc([i \in 1..Len(entries) |-> LocationData(entries[i])],
                                "offerCount")
        top == Slice(locations, TopCities)
    IN  [locations |-> locations,
         summary |->
           [totalMissions |->
                SumSeq([i \in 1..Len(locations) |-> locations[i].offerCount]),
            averageTjm |->
                MeanOrZero([i \in 1..Len(locations) |-> locations[i].averageTjm]),
            topCities |-> [i \in 1..Len(top) |-> top[i].city]]]

(***************************************************************************)
(* SpecLoc: one GET /api/location-stats against a table                    *)
(***************************************************************************)
MaxLocRows == 3
MaxCities  == 6

LocOffer(i, location, min, max) ==
    [PageOffer(i) EXCEPT !.location = location, !.tjm_min = min, !.tjm_max = max]

\* offers of two spellings of a city, of a city without any TJM, and
\* offers without a location
LocPool ==
    { LocOffer(1, <<"P","a","r","i","s">>, Some(400), Unset),
      LocOffer(2, <<"p","a","r","i","s",","," ","I","D","F">>, Some(400), Some(0)),
      LocOffer(3, <<"L","y","o","n">>, Unset, Some(1000)),
      LocOffer(4, <<"N","i","c","e">>, Unset, Unset),
      LocOffer(5, <<>>, Some(500), Some(500)),
      LocOffer(6, NULL, Some(500), Some(500)) }

CityNames ==
    << <<"L","i","l","l","e">>, <<"N","a","n","t","e","s">>, <<"R","e","n","n","e","s">>, <<"B","r","e","s","t">>, <<"M","e","t","z">>, <<"P","a","u">>, <<"D","i","j","o","n">>, <<"T","o","u","r","s">> >>

\* one offer in each of MaxCities cities, and a second one in the last
WideTable ==
    { LocOffer(i, CityNames[i], Some(300 + 10 * i), Unset) : i \in 1..MaxCities }
    \cup { LocOffer(MaxCities + 1, toLowerCase(CityNames[MaxCities]), Unset, Some(800)) }

LocTables ==
    {t \in SUBSET LocPool : Cardinality(t) <= MaxLocRows} \cup {WideTable}

InitLoc ==
    /\ offers \in LocTables
    /\ written = offers
    /\ request = NoRequest
    /\ response = NoResponse
    /\ NormIdle
    /\ EtlIdle
    /\ PageIdle
    /\ PopIdle
    /\ StatsIdle
    /\ CallIdle

\* the rows in the order of their scraped_at, from the k-th on and then
\* from the first
Rotated(rows, k) ==
    LET s == NewestFirst(rows)
    IN  SubSeq(s, k, Len(s)) \o SubSeq(s, 1, k - 1)

\* the orders in which a select without ORDER BY gives the rows: any order
\* for up to MaxLocRows rows, the rotations of one order for more
ScanOrders(rows) ==
    IF Cardinality(rows) <= MaxLocRows THEN Orderings(rows)
    ELSE {Rotated(rows, k) : k \in 1..Cardinality(rows)}

\* GET: the select answers with the offers that have a location
GetLocationStats ==
    /\ request = NoRequest
    /\ \E scan \in ScanOrders({r \in offers : r.location # NULL}) :
         /\ request' = [handler |-> "GET /api/location-stats", scan |-> scan]
         /\ response' = [status |-> 200, body |-> LocationStats(scan)]
    /\ UNCHANGED <<offers, written>>
    /\ UNCHANGED <<normVars, etlVars, pageVars, callVars, statsVars, popVars>>

\* GET: the select answers with an error
GetLocationStatsFails ==
    /\ request = NoRequest
    /\ request' = [handler |-> "GET /api/location-stats", scan |-> <<>>]
    /\ response' = [status |-> 500, body |-> [error |-> "supabase error"]]
    /\ UNCHANGED <<offers, written>>
    /\ UNCHANGED <<normVars, etlVars, pageVars, callVars, statsVars, popVars>>

NextLoc == GetLocationStats \/ GetLocationStatsFails

SpecLoc == InitLoc /\ [][NextLoc]_vars

(***************************************************************************)
(* Claims about GET /api/location-stats                                    *)
(***************************************************************************)
\* the request was answered with the statistics
StatsAnswered == response.status = 200 /\ request.handler = "GET /api/location-stats"

\* the sum of the offerCount of the locations returned
OfferCountSum ==
    SumSeq([i \in 1..Len(response.body.locations) |->
               response.body.locations[i].offerCount])

\* no two locations returned have the same city ignoring case
DistinctCities ==
    \A i, j \in 1..Len(response.body.locations) :
        i # j => toLowerCase(response.body.locations[i].city)
                   # toLowerCase(response.body.locations[j].city)

FirstSegment(location) ==
    LET first == Trim(Split(location, ",")[1])
    IN  IF first = <<>> THEN location ELSE first

RECURSIVE AllTjms(_)
AllTjms(scan) ==
    IF scan = <<>> THEN <<>>
    ELSE (IF HasLocation(Head(scan)) THEN ValidTjms(Head(scan)) ELSE <<>>)
         \o AllTjms(Tail(scan))

\* C17: summary.averageTjm is the rounded mean of the TJM values of all
\* offers, however the offers are distributed among the cities.
C17_MeanOverAllOffers ==
    StatsAnswered =>
        response.body.summary.averageTjm = MeanOrZero(AllTjms(request.scan))

\* C18: the locations are in non-increasing order of offerCount, and
\* summary.topCities lists the cities of the first min(5, n) of them in
\* that order.
C18_SortedAndTopFive ==
    StatsAnswered =>
        LET locations == response.body.locations
            n == Len(locations)
            m == IF n < TopCities THEN n ELSE TopCities
        IN  /\ \A i, j \in 1..n : i < j => locations[i].offerCount >= locations[j].offerCount
            /\ response.body.summary.topCities = [i \in 1..m |-> locations[i].city]

\* more than five cities, and the city seen last by the select has the
\* most offers
C18_Witness ==
    /\ StatsAnswered
    /\ Len(response.body.locations) > TopCities
    /\ Len(response.body.summary.topCities) = TopCities
    /\ response.body.locations[1].offerCount = 2
    /\ toLowerCase(response.body.locations[1].city)
          = toLowerCase(CityOf(request.scan[Len(request.scan)].location))
    /\ toLowerCase(response.body.locations[1].city)
          # toLowerCase(CityOf(request.scan[1].location))

(***************************************************************************)
(* SpecSummary: one call of calculateLocationSummary                       *)
(***************************************************************************)
MaxLocations == 3

\* the bug of sorting the argument itself
calculateLocationSummary_SortsInPlace(locations) ==
    LET sortedByTjm == SortedDesc(locations, "averageTjm")
        sortedByActivity == SortedDesc(sortedByTjm, "offerCount")
    IN  IF Len(locations) = 0
        THEN <<[highestTjm |-> Unset, lowestTjm |-> Unset,
                mostActive |-> Unset, leastActive |-> Unset], locations>>
        ELSE <<[highestTjm |-> Some(sortedByTjm[1]),
                lowestTjm |-> Some(sortedByTjm[Len(sortedByTjm)]),
                mostActive |-> Some(sortedByActivity[1]),
                leastActive |-> Some(sortedByActivity[Len(sortedByActivity)])],
               sortedByActivity>>

\* calculateLocationSummary: the summary returned and the argument array
\* after the call; the sorts work on copies
calculateLocationSummary(locations) ==
    LET sortedByTjm == SortedDesc(locations, "averageTjm")
        sortedByActivity == SortedDesc(locations, "offerCount")
    IN  IF Len(locations) = 0
        THEN <<[highestTjm |-> Unset, lowestTjm |-> Unset,
                mostActive |-> Unset, leastActive |-> Unset], locations>>
        ELSE <<[highestTjm |-> Some(sortedByTjm[1]),
                lowestTjm |-> Some(sortedByTjm[Len(sortedByTjm)]),
                mostActive |-> Some(sortedByActivity[1]),
                leastActive |-> Some(sortedByActivity[Len(sortedByActivity)])],
               locations>>

SummaryLocations ==
    { [city |-> <<"P","a","r","i","s">>, region |-> <<"I","D","F">>, averageTjm |-> 400, offerCount |-> 2],
      [city |-> <<"L","y","o","n">>, region |-> <<"L","y","o","n">>, averageTjm |-> 700, offerCount |-> 1],
      [city |-> <<"N","i","c","e">>, region |-> <<"N","i","c","e">>, averageTjm |-> 0, offerCount |-> 1],
      [city |-> <<"L","i","l","l","e">>, region |-> <<"L","i","l","l","e">>, averageTjm |-> 400, offerCount |-> 3] }

SummaryInputs == UNION {[1..n -> SummaryLocations] : n \in 0..MaxLocations}

InitSummary ==
    /\ input \in {Some(locations) : locations \in SummaryInputs}
    /\ output = NoValue
    /\ NormIdle
    /\ DbIdle
    /\ EtlIdle
    /\ PageIdle
    /\ PopIdle
    /\ StatsIdle

Summarize ==
    /\ Len(output) = 1
    /\ output' = calculateLocationSummary(input[1])
    /\ UNCHANGED input
    /\ UNCHANGED <<normVars, dbVars, etlVars, pageVars, statsVars, popVars>>

NextSummary == Summarize

SpecSummary == InitSummary /\ [][NextSummary]_vars

\* C19: for a non-empty list, highestTjm has an averageTjm >= and lowestTjm
\* an averageTjm <= that of every location, mostActive has an offerCount >=
\* and leastActive an offerCount <= that of every location, and all four
\* are elements of the list; for an empty list all four are null; the list
\* passed in is not reordered.
C19_SummaryExtremes ==
    Len(output) = 2 =>
        LET locations == input[1]
            summary == output[1]
            elements == {locations[i] : i \in 1..Len(locations)}
        IN  /\ output[2] = locations
            /\ locations = <<>> =>
                   /\ summary.highestTjm = Unset /\ summary.lowestTjm = Unset
                   /\ summary.mostActive = Unset /\ summary.leastActive = Unset
            /\ locations # <<>> =>
                   /\ \A f \in {"highestTjm", "lowestTjm", "mostActive", "leastActive"} :
                          Len(summary[f]) = 1 /\ summary[f][1] \in elements
                   /\ \A l \in elements :
                          /\ summary.highestTjm[1].averageTjm >= l.averageTjm
                          /\ summary.lowestTjm[1].averageTjm <= l.averageTjm
                          /\ summary.mostActive[1].offerCount >= l.offerCount
                          /\ summary.leastActive[1].offerCount <= l.offerCount

\* a list in neither order, whose four extremes are found
C19_Witness ==
    /\ Len(output) = 2
    /\ Len(input[1]) = 3
    /\ output[1].highestTjm = Some(input[1][2])
    /\ output[1].mostActive = Some(input[1][3])
    /\ output[1].lowestTjm = Some(input[1][1])
    /\ output[1].leastActive # output[1].lowestTjm

(***************************************************************************)
(* Claims about the offer modal                                            *)
(***************************************************************************)
\* C20: "Voir l'offre" opens the modal for the offer of its card; the X
\* button, the "Fermer" button, a click on the overlay and the Escape key
\* each close it, a click inside its content does not; the body scroll is
\* locked (overflow 'hidden') if and only if the modal is open, and the
\* Escape listener is registered only while it is open.
C20_ModalLifecycle ==
    LET open == ModalShown(search, selectedOffer)
    IN  /\ modalEvent.kind = "view" =>
               open /\ selectedOffer = Some(search.results[1][modalEvent.card])
        /\ modalEvent.kind \in CloseControls \cup {"escape"} => ~open
        /\ modalEvent.kind = "content" => open
        /\ document.overflow = "hidden" <=> open
        /\ document.keydown => open

\* the modal has been closed by the Escape key and the scroll is released
C20_Witness ==
    /\ modalEvent.kind = "escape"
    /\ document = [overflow |-> "unset", keydown |-> FALSE]
    /\ selectedOffer = <<>>
    /\ PageView(search) = "cards"

(***************************************************************************)
(* SpecStats: useLocationStats in a mounted HomePage                       *)
(***************************************************************************)
MaxRenders == 3

\* the bug of an effect without a dependency array: it runs after every
\* render
EffectDue_EveryRender(renders, effects) == effects < renders

\* useEffect(..., []): the effect runs after the first render only
EffectDue(renders, effects) == renders >= 1 /\ effects = 0

\* error.message of what getLocationStats and fetch throw
FetchErrors == {"API error: 500", "Failed to fetch"}

\* the lists GET /api/location-stats can answer with for a table, which
\* no step of the hook changes
ServedLocations(rows) ==
    {LocationStats(scan).locations : scan \in ScanOrders({r \in rows : r.location # NULL})}

\* the first render: useState's initial value, the effect not yet run
InitStats ==
    /\ offers \in LocTables
    /\ written = offers
    /\ request = NoRequest
    /\ response = NoResponse
    /\ stats = [locations |-> <<>>, loading |-> TRUE, error |-> <<>>]
    /\ fetch = [NotMounted EXCEPT !.renders = 1, !.served = ServedLocations(offers)]
    /\ NormIdle
    /\ EtlIdle
    /\ PageIdle
    /\ PopIdle
    /\ CallIdle

\* the effect: fetchLocationStats up to its await
RunEffect ==
    /\ EffectDue(fetch.renders, fetch.effects)
    /\ stats' = [stats EXCEPT !.loading = TRUE, !.error = <<>>]
    /\ fetch' = [fetch EXCEPT !.effects = fetch.renders,
                              !.requests = fetch.requests + 1,
                              !.inFlight = fetch.inFlight + 1]
    /\ UNCHANGED <<dbVars, normVars, etlVars, pageVars, callVars, popVars>>

\* HomePage renders again, for a change of its search state
Rerender ==
    /\ fetch.renders < MaxRenders
    /\ fetch' = [fetch EXCEPT !.renders = fetch.renders + 1]
    /\ UNCHANGED stats
    /\ UNCHANGED <<dbVars, normVars, etlVars, pageVars, callVars, popVars>>

\* fetchLocationStats after its await: GET /api/location-stats has answered
StatsArrive ==
    /\ fetch.inFlight > 0
    /\ \E locations \in fetch.served :
         /\ stats' = [locations |-> locations, loading |-> FALSE, error |-> <<>>]
         /\ fetch' = [fetch EXCEPT !.inFlight = fetch.inFlight - 1,
                                   !.answer = Some(locations)]
    /\ UNCHANGED <<dbVars, normVars, etlVars, pageVars, callVars, popVars>>

\* fetchLocationStats in its catch
StatsFail(message) ==
    /\ fetch.inFlight > 0
    /\ stats' = [locations |-> <<>>, loading |-> FALSE, error |-> Some(message)]
    /\ fetch' = [fetch EXCEPT !.inFlight = fetch.inFlight - 1]
    /\ UNCHANGED <<dbVars, normVars, etlVars, pageVars, callVars, popVars>>

StatsSettle == StatsArrive \/ \E message \in FetchErrors : StatsFail(message)

NextStats ==
    \/ RunEffect
    \/ Rerender
    \/ StatsArrive
    \/ \E message \in FetchErrors : StatsFail(message)

SpecStats == InitStats /\ [][NextStats]_vars

\* the effect of a rendered component runs, and a request sent is answered
\* or fails
SpecStatsFair == SpecStats /\ WF_vars(RunEffect) /\ WF_vars(StatsSettle)

\* the state the hook ends in
StatsTerminal ==
    /\ ~stats.loading
    /\ fetch.requests = 1 /\ fetch.inFlight = 0
    /\ \/ stats.error = <<>> /\ fetch.answer = Some(stats.locations)
       \/ /\ stats.error # <<>> /\ stats.error[1] # ""
          /\ stats.locations = <<>>

\* C21: useLocationStats starts with loading true, issues a single
\* getLocationStats request per mount, and eventually stays in a state with
\* loading false where either error is null and locations is the list of
\* the response, or error is a non-empty message and locations is empty;
\* nothing changes the hook's state after that.
C21_LoadsOnceThenSettles ==
    /\ stats.loading
    /\ [](fetch.requests <= 1)
    /\ [][(~stats.loading) => stats' = stats]_vars
    /\ <>[]StatsTerminal

\* the hook has settled on a list of two cities and the page has rendered
\* again since
C21_Witness ==
    /\ StatsTerminal
    /\ Len(stats.locations) = 2
    /\ fetch.renders > 1

(***************************************************************************)
(* SpecFormat: one call of formatTjm                                       *)
(***************************************************************************)
MaxSmallTjm == 10

\* the bug of printing a range whatever the rates
formatTjm_AlwaysRange(min, max) ==
    ToDigits(min) \o <<"€", " ", "-", " ">> \o ToDigits(max) \o <<"€">>

\* formatTjm: `${min}€` or `${min}€ - ${max}€`
formatTjm(min, max) ==
    IF min = max THEN ToDigits(min) \o <<"€">>
    ELSE ToDigits(min) \o <<"€", " ", "-", " ">> \o ToDigits(max) \o <<"€">>

\* the rates of the tests and the small ones
FormatRates == (0..MaxSmallTjm) \cup {400, 500, 600, 1000, 1500}

InitFormat ==
    /\ input \in FormatRates \X FormatRates
    /\ output = NoValue
    /\ NormIdle
    /\ DbIdle
    /\ EtlIdle
    /\ PageIdle
    /\ PopIdle
    /\ StatsIdle

Format ==
    /\ output = NoValue
    /\ output' = formatTjm(input[1], input[2])
    /\ UNCHANGED input
    /\ UNCHANGED <<normVars, dbVars, etlVars, pageVars, statsVars, popVars>>

NextFormat == Format

SpecFormat == InitFormat /\ [][NextFormat]_vars

\* text is the decimal numeral of n followed by the euro sign
IsAmount(text, n) ==
    /\ Len(text) >= 2
    /\ text[Len(text)] = "€"
    /\ \A i \in 1..(Len(text) - 1) : IsDigit(text[i])
    /\ (Len(text) > 2 => text[1] # "0")
    /\ ParseInt(SubSeq(text, 1, Len(text) - 1)) = n

\* C22: formatTjm(min, max) is "<min>€" when min equals max, 0 included,
\* and "<min>€ - <max>€" otherwise.
C22_SingleOrRange ==
    output # NoValue =>
        IF input[1] = input[2] THEN IsAmount(output, input[1])
        ELSE \E k \in 1..Len(output) :
                 /\ IsAmount(SubSeq(output, 1, k), input[1])
                 /\ SubSeq(output, k + 1, k + 3) = <<" ", "-", " ">>
                 /\ IsAmount(SubSeq(output, k + 4, Len(output)), input[2])

\* the cases of the tests: 0 and 0, 400 and 600
C22_Witness ==
    \/ input = <<0, 0>> /\ output = <<"0", "€">>
    \/ input = <<400, 600>> /\ Len(output) = 11

(***************************************************************************)
(* GET /api/technologies                                                   *)
(***************************************************************************)
\* the characters of technology names in the order of their UTF-16 code
\* units, which Array.prototype.sort() compares
CodeUnitOrder == <<" ", "#", "+", ".">> \o Digits \o UpperCs \o LowerCs

CodeUnit(c) == CHOOSE i \in 1..Len(CodeUnitOrder) : CodeUnitOrder[i] = c

\* a comes before b for the default sort: at the first place where they
\* differ a has the smaller code unit, or a is a proper prefix of b
RECURSIVE SortsBefore(_, _)
SortsBefore(a, b) ==
    IF b = <<>> THEN FALSE
    ELSE IF a = <<>> THEN TRUE
    ELSE IF Head(a) = Head(b) THEN SortsBefore(Tail(a), Tail(b))
    ELSE CodeUnit(Head(a)) < CodeUnit(Head(b))

\* the elements of a set of strings in the order of sort()
RECURSIVE SortedStrings(_)
SortedStrings(set) ==
    IF set = {} THEN <<>>
    ELSE LET first == CHOOSE x \in set : \A y \in set \ {x} : SortsBefore(x, y)
         IN  <<first>> \o SortedStrings(set \ {first})

\* offer.technologies && Array.isArray(offer.technologies)
HasTechnologies(offer) == offer.technologies # NullArray

\* the technologies of the offers that have an array of them
TechSet(rows) ==
    UNION { {r.technologies[i] : i \in 1..Len(r.technologies)} :
              r \in {x \in rows : HasTechnologies(x)} }

\* the bug of sorting in descending order
TechnologyList_Descending(rows) ==
    LET up == SortedStrings(TechSet(rows))
    IN  [i \in 1..Len(up) |-> up[Len(up) + 1 - i]]

\* Array.from(techSet).sort() over the technologies of the offers
TechnologyList(rows) == SortedStrings(TechSet(rows))

(***************************************************************************)
(* SpecTech: one GET /api/technologies against a table                     *)
(***************************************************************************)
MaxTechRows == 3

TechOffer(i, technologies) == [PageOffer(i) EXCEPT !.technologies = technologies]

TechPool ==
    { TechOffer(1, << <<"R","e","a","c","t">>, <<"A","W","S">> >>),
      TechOffer(2, << <<"r","e","a","c","t">>, <<"R","e","a","c","t">> >>),
      TechOffer(3, << <<"C","#">>, <<"C","+","+">>, <<"C">> >>),
      TechOffer(4, << <<"N","o","d","e",".","j","s">>, <<"A","W","S">> >>),
      TechOffer(5, <<>>),
      TechOffer(6, NullArray),
      TechOffer(7, << <<"V","u","e"," ","3">> >>) }

TechTables == {t \in SUBSET TechPool : Cardinality(t) <= MaxTechRows}

InitTech ==
    /\ offers \in TechTables
    /\ written = offers
    /\ request = NoRequest
    /\ response = NoResponse
    /\ NormIdle
    /\ EtlIdle
    /\ PageIdle
    /\ PopIdle
    /\ StatsIdle
    /\ CallIdle

\* GET: the select answers
GetTechnologies ==
    /\ request = NoRequest
    /\ request' = [handler |-> "GET /api/technologies"]
    /\ response' = [status |-> 200,
                    body |-> [technologies |-> TechnologyList(offers),
                              count |-> Len(TechnologyList(offers))]]
    /\ UNCHANGED <<offers, written>>
    /\ UNCHANGED <<normVars, etlVars, pageVars, callVars, statsVars, popVars>>

\* GET: the select answers with an error
GetTechnologiesFails ==
    /\ request = NoRequest
    /\ request' = [handler |-> "GET /api/technologies"]
    /\ response' = [status |-> 500, body |-> [error |-> "supabase error"]]
    /\ UNCHANGED <<offers, written>>
    /\ UNCHANGED <<normVars, etlVars, pageVars, callVars, statsVars, popVars>>

NextTech == GetTechnologies \/ GetTechnologiesFails

SpecTech == InitTech /\ [][NextTech]_vars

MaxCalls == 2

SearchForms ==
    { [position |-> "React", location |-> "Paris"],
      [position |-> "Python", location |-> "Lyon"] }

\* tjmEvolution.data: undefined or an array
AnsweredArrays == {Unset, Some(<<"item">>)}

\* searchResponse.missions
AnsweredMissions == {Some(<<"mission">>)}

\* x || []
OrEmpty(x) == IF x = Unset THEN <<>> ELSE x[1]

\* error.message of what handleResponse throws
SearchErrors == {"API Error: 500 Internal Server Error"}

\* the bug of a catch that drops the previous results
FailedSearch_ResultsDropped(st, message) ==
    [st EXCEPT !.loading = FALSE, !.error = Some(message), !.results = <<>>]

\* handleSearch: setState of the catch
FailedSearch(st, message) ==
    [st EXCEPT !.loading = FALSE, !.error = Some(message)]

\* handleSearch: setState after the two awaits
SucceededSearch(st, searchData, data, missions) ==
    [st EXCEPT !.loading = FALSE, !.error = <<>>,
               !.results = Some([position |-> searchData.position,
                                 location |-> searchData.location,
                                 tjmEvolution |-> OrEmpty(data),
                                 recentMissions |-> OrEmpty(missions)])]

\* the calls in flight once something else has happened to the hook
Disturbed(calls) ==
    LET disturbed(c) == [c EXCEPT !.undisturbed = FALSE]
    IN  IF calls = EmptyBag THEN EmptyBag
        ELSE [c \in {disturbed(x) : x \in BagToSet(calls)} |->
                (IF c \in BagToSet(calls) THEN calls[c] ELSE 0)
                + (IF [c EXCEPT !.undisturbed = TRUE] \in BagToSet(calls)
                   THEN calls[[c EXCEPT !.undisturbed = TRUE]] ELSE 0)]

InitSearch ==
    /\ form = EmptyForm
    /\ search = NoSearch
    /\ pending = EmptyBag
    /\ selectedOffer = <<>> /\ document = PlainBody /\ modalEvent = NoModalEvent
    /\ request = NoRequest
    /\ response = NoResponse
    /\ offers = {} /\ written = {}
    /\ NormIdle
    /\ EtlIdle
    /\ PopIdle
    /\ StatsIdle
    /\ CallIdle

\* handleSearch up to its first await
HookSearch(searchData) ==
    /\ BagCardinality(pending) < MaxCalls
    /\ search' = StartedSearch(search, searchData)
    /\ pending' = Disturbed(pending) (+)
          SetToBag({[params |-> searchData, stage |-> "searchMissions",
                     missions |-> Unset, before |-> search.results,
                     undisturbed |-> pending = EmptyBag]})
    /\ request' = NoRequest
    /\ response' = NoResponse
    /\ UNCHANGED <<form, selectedOffer, document, modalEvent, offers, written>>
    /\ UNCHANGED <<normVars, etlVars, callVars, statsVars, popVars>>

\* searchMissions has answered: handleSearch goes on to getTjmEvolution
MissionsArrive(c, missions) ==
    /\ BagIn(c, pending) /\ c.stage = "searchMissions"
    /\ pending' = (pending (-) SetToBag({c})) (+)
          SetToBag({[c EXCEPT !.stage = "getTjmEvolution", !.missions = missions]})
    /\ request' = [handler |-> "searchMissions", call |-> c]
    /\ response' = [status |-> 200]
    /\ UNCHANGED <<form, search, selectedOffer, document, modalEvent, offers, written>>
    /\ UNCHANGED <<normVars, etlVars, callVars, statsVars, popVars>>

\* getTjmEvolution has answered: the last setState of the try block
EvolutionArrives(c, data) ==
    /\ BagIn(c, pending) /\ c.stage = "getTjmEvolution"
    /\ pending' = pending (-) SetToBag({c})
    /\ search' = SucceededSearch(search, c.params, data, c.missions)
    /\ request' = [handler |-> "getTjmEvolution", call |-> c]
    /\ response' = [status |-> 200]
    /\ UNCHANGED <<form, selectedOffer, document, modalEvent, offers, written>>
    /\ UNCHANGED <<normVars, etlVars, callVars, statsVars, popVars>>

\* either request has failed: the catch
CallFails(c, message) ==
    /\ BagIn(c, pending)
    /\ pending' = pending (-) SetToBag({c})
    /\ search' = FailedSearch(search, message)
    /\ request' = [handler |-> c.stage, call |-> c]
    /\ response' = [status |-> 500, message |-> message]
    /\ UNCHANGED <<form, selectedOffer, document, modalEvent, offers, written>>
    /\ UNCHANGED <<normVars, etlVars, callVars, statsVars, popVars>>

\* clearResults
ClearResults ==
    /\ search # NoSearch
    /\ search' = NoSearch
    /\ pending' = Disturbed(pending)
    /\ request' = [handler |-> "clearResults"]
    /\ response' = NoResponse
    /\ UNCHANGED <<form, selectedOffer, document, modalEvent, offers, written>>
    /\ UNCHANGED <<normVars, etlVars, callVars, statsVars, popVars>>

NextSearch ==
    \/ \E searchData \in SearchForms : HookSearch(searchData)
    \/ \E c \in BagToSet(pending), missions \in AnsweredMissions : MissionsArrive(c, missions)
    \/ \E c \in BagToSet(pending), data \in AnsweredArrays : EvolutionArrives(c, data)
    \/ \E c \in BagToSet(pending), message \in SearchErrors : CallFails(c, message)
    \/ ClearResults

SpecSearch == InitSearch /\ [][NextSearch]_vars

\* the searches alone: no request fails and clearResults is not called
NextOverlap ==
    \/ \E searchData \in SearchForms : HookSearch(searchData)
    \/ \E c \in BagToSet(pending), missions \in AnsweredMissions : MissionsArrive(c, missions)
    \/ \E c \in BagToSet(pending), data \in AnsweredArrays : EvolutionArrives(c, data)

SpecOverlap == InitSearch /\ [][NextOverlap]_vars

\* C24: once no call is in flight, the stored results are those of the
\* most recently issued search: results.position and results.location
\* equal searchParams.position and searchParams.location, whatever the
\* order in which the responses of overlapping calls arrived.
C24_LatestSearchWins ==
    (pending = EmptyBag /\ Len(search.results) = 1 /\ Len(search.searchParams) = 1) =>
        /\ search.results[1].position = search.searchParams[1].position
        /\ search.results[1].location = search.searchParams[1].location

\* the last step delivered a failure to a handleSearch call
FailureDelivered == response.status = 500

KeyStored(rows) ==
    \E r \in rows : <<r.source, r.source_id>> = request.key

TypeErrorThrown == <<"<TypeError: tech.toLowerCase is not a function>">>

\* normalizeTechnology called with whatever a first call returned
normalizeReturned(v) ==
    IF v = InheritedMember THEN TypeErrorThrown ELSE normalizeTechnology(v)

InitTwice ==
    /\ techIn \in TechInputs
    /\ techOut = NoValue
    /\ input = NoValue /\ output = NoValue
    /\ DbIdle
    /\ EtlIdle
    /\ PageIdle
    /\ PopIdle
    /\ StatsIdle

NormalizeOnce ==
    /\ techOut = NoValue
    /\ techOut' = normalizeTechnology(techIn)
    /\ UNCHANGED <<techIn, dbVars, etlVars, pageVars, callVars, statsVars, popVars>>

NormalizeAgain ==
    /\ techOut # NoValue /\ output = NoValue
    /\ input' = techOut
    /\ output' = normalizeReturned(techOut)
    /\ UNCHANGED <<normVars, dbVars, etlVars, pageVars, statsVars, popVars>>

NextTwice == NormalizeOnce \/ NormalizeAgain

SpecTwice == InitTwice /\ [][NextTwice]_vars

\* C27: normalization is idempotent: for every input string t, normalizing
\* the result of normalize(t) again returns that same result.
C27_Idempotent == output # NoValue => output = techOut

(***************************************************************************)
(* SpecPop: one run of scripts/populate_db.ps1                             *)
(*   a row of offers is [source, source_id]; a file of the data directory  *)
(*   is [name, ext, items], items the number of elements of its JSON array *)
(*   pipeline.log is history: the steps run so far, in order               *)
(***************************************************************************)
MaxItems == 2

\* the sources that step 1 deletes
ListedSources ==
    {"freework", "collective_work", "generated_data", "test", "test_deduplication"}

ItemIds == <<"1", "2", "3">>

StoredBefore ==
    { [source |-> "freework", source_id |-> "1"],
      [source |-> "test", source_id |-> "1"],
      [source |-> "manual", source_id |-> "1"] }

OldFiles ==
    { [name |-> "freework", ext |-> "json", items |-> 2],
      [name |-> "collective_work", ext |-> "json", items |-> 1],
      [name |-> "scrapy", ext |-> "log", items |-> 0] }

\* step 1: delete().eq('source', source) for each listed source
Cleaned(rows) == {r \in rows : r.source \notin ListedSources}

\* step 2: Get-ChildItem -Filter "*.json" | Remove-Item
WithoutJson(dir) == {f \in dir : f.ext # "json"}

\* scrapy crawl <name> -O data/<name>.json: no file, or a file of n items
CrawlResults == {<<>>} \cup {<<n>> : n \in 0..MaxItems}

AfterCrawl(dir, name, result) ==
    IF result = <<>> THEN dir
    ELSE {f \in dir : ~(f.name = name /\ f.ext = "json")}
         \cup {[name |-> name, ext |-> "json", items |-> result[1]]}

\* Test-Path, ConvertFrom-Json and `-is [Array]`: the values the count can
\* take.  A missing file counts 0.  The pipeline unrolls the array, so that
\* one element is no array and counts 1; of an empty array nothing may be
\* left (no array: 1) or the array itself (Count 0), depending on the shell.
CountsOf(dir, name) ==
    LET found == {f \in dir : f.name = name /\ f.ext = "json"}
    IN  IF found = {} THEN {0}
        ELSE LET n == (CHOOSE f \in found : TRUE).items
             IN  IF n >= 2 THEN {n} ELSE IF n = 1 THEN {1} ELSE {0, 1}

\* $totalScraped
TotalScraped(run) == run.freeworkCount[1] + run.collectiveCount[1]

\* the bug of loading whatever was scraped
ShouldLoad_Always(total) == total >= 0

\* if ($totalScraped -gt 0)
ShouldLoad(total) == total > 0

\* the offers that run_full_pipeline.py reads from the data files
ScrapedRows(dir) ==
    UNION {{[source |-> f.name, source_id |-> ItemIds[i]] : i \in 1..f.items}
           : f \in {g \in dir : g.ext = "json"}}

Logged(run, step) == [run EXCEPT !.log = Append(run.log, step)]

InitPop ==
    /\ offers \in SUBSET StoredBefore
    /\ dataDir \in SUBSET OldFiles
    /\ pipeline = [NotStarted EXCEPT !.step = "cleanup"]
    /\ dbReachable \in BOOLEAN
    /\ batch = <<>> /\ pos = 1 /\ outcome = <<>> /\ etlStatus = "idle"
    /\ written = {} /\ request = NoRequest /\ response = NoResponse
    /\ NormIdle
    /\ PageIdle
    /\ StatsIdle
    /\ CallIdle

\* ETAPE 1: the python snippet; when the database does not answer it
\* fails and the script goes on ($ErrorActionPreference = "Continue")
CleanDatabase ==
    /\ pipeline.step = "cleanup"
    /\ offers' = IF dbReachable THEN Cleaned(offers) ELSE offers
    /\ pipeline' = [Logged(pipeline, "cleanup") EXCEPT !.step = "files"]
    /\ UNCHANGED <<dataDir, written, request, response>>
    /\ UNCHANGED <<normVars, etlVars, pageVars, callVars, statsVars>>

\* ETAPE 2
CleanFiles ==
    /\ pipeline.step = "files"
    /\ dataDir' = WithoutJson(dataDir)
    /\ pipeline' = [Logged(pipeline, "files") EXCEPT !.step = "freework", !.kept = offers]
    /\ UNCHANGED <<dbVars, normVars, etlVars, pageVars, callVars, statsVars>>

\* ETAPE 3, FreeWork: the crawl and the count
ScrapeFreework(result, count) ==
    /\ pipeline.step = "freework"
    /\ dataDir' = AfterCrawl(dataDir, "freework", result)
    /\ count \in CountsOf(dataDir', "freework")
    /\ pipeline' = [Logged(pipeline, "freework") EXCEPT
                        !.step = "collective_work", !.freeworkCount = <<count>>]
    /\ UNCHANGED <<dbVars, normVars, etlVars, pageVars, callVars, statsVars>>

\* ETAPE 3, Collective.work
ScrapeCollective(result, count) ==
    /\ pipeline.step = "collective_work"
    /\ dataDir' = AfterCrawl(dataDir, "collective_work", result)
    /\ count \in CountsOf(dataDir', "collective_work")
    /\ pipeline' = [Logged(pipeline, "collective_work") EXCEPT
                        !.step = "decide", !.collectiveCount = <<count>>]
    /\ UNCHANGED <<dbVars, normVars, etlVars, pageVars, callVars, statsVars>>

\* ETAPE 4: python run_full_pipeline.py
LoadSupabase ==
    /\ pipeline.step = "decide"
    /\ ShouldLoad(TotalScraped(pipeline))
    /\ offers' = IF dbReachable THEN offers \cup ScrapedRows(dataDir) ELSE offers
    /\ pipeline' = [Logged(pipeline, "load") EXCEPT !.step = "verify"]
    /\ UNCHANGED <<dataDir, written, request, response>>
    /\ UNCHANGED <<normVars, etlVars, pageVars, callVars, statsVars>>

\* ETAPE 5: the counts are read and printed
VerifyDatabase ==
    /\ pipeline.step = "verify"
    /\ pipeline' = [Logged(pipeline, "verify") EXCEPT !.step = "done"]
    /\ UNCHANGED <<dataDir, dbVars, normVars, etlVars, pageVars, callVars, statsVars>>

\* the else branch
Abandon ==
    /\ pipeline.step = "decide"
    /\ ~ShouldLoad(TotalScraped(pipeline))
    /\ pipeline' = [pipeline EXCEPT !.step = "done",
                        !.message = "Aucune donnée scrapée. Abandon."]
    /\ UNCHANGED <<dataDir, dbVars, normVars, etlVars, pageVars, callVars, statsVars>>

NextPop ==
    \/ CleanDatabase
    \/ CleanFiles
    \/ \E result \in CrawlResults, count \in 0..(MaxItems + 1) : ScrapeFreework(result, count)
    \/ \E result \in CrawlResults, count \in 0..(MaxItems + 1) : ScrapeCollective(result, count)
    \/ LoadSupabase
    \/ VerifyDatabase
    \/ Abandon

SpecPop == InitPop /\ [][NextPop]_vars

\* the step was run, and every step of `earlier` was run before it
RanAfter(step, earlier) ==
    \A i \in 1..Len(pipeline.log) :
        pipeline.log[i] = step =>
            \A e \in earlier : \E j \in 1..(i - 1) : pipeline.log[j] = e

Ran(step) == \E i \in 1..Len(pipeline.log) : pipeline.log[i] = step

PipelineDone == pipeline.step = "done"

====
